---- MODULE Spec2Model ----
(***************************************************************************)
(* Model of the daily-message scheduler (src/scheduler.py), the bot's      *)
(* daily job (src/bot.py) and the configuration they read (src/config.py). *)
(*                                                                         *)
(* Time is a clock `now` in seconds.  A sleeping thread holds the time at  *)
(* which its time.sleep() ends; the clock cannot pass an expired sleep or  *)
(* an expired join timeout without the waiting thread acting first, and    *)
(* calls other than sleep/join take no time.  The day is DayLen seconds    *)
(* long (a bound: the real day has 86400) and the fire time is an offset   *)
(* in seconds after midnight.                                              *)
(***************************************************************************)
EXTENDS Integers, Naturals, Sequences, FiniteSets, TLC

\* ------------------------------------------------------------------ bounds
MaxAttempts == 3      \* largest configured retry_attempts explored
MaxThreads  == 2      \* background threads start() may launch in one run
Quantum     == 30     \* granularity of the clock, in seconds
DayLen      == 120    \* seconds in the modelled day
Horizon     == 240    \* the clock stops at the first tick at or after this time
MaxDate     == 1      \* last calendar day "now" is drawn from (get_next_run_time)
MaxReschedules == 1   \* calls of reschedule() in one run
MaxCalls    == 3      \* calls of the persistence layer in one run
MaxFaults   == 2      \* storage failures (probe, connect, statement, commit)
MaxUpdates  == 3      \* updates the inbound loop receives in one run
MaxInbound  == 1      \* updates received while the scheduler's thread runs
MaxMessages == 2      \* texts a configured daily_messages list may hold

\* ------------------------------------------------------- program constants
PollSleep         == 30    \* time.sleep(30) after run_pending
ErrorSleep        == 60    \* time.sleep(60) after a scheduler error
JoinTimeout       == 5     \* scheduler_thread.join(timeout=5)
DefaultRetryDelay == 60    \* Config.retry_delay default
NoThread          == 0     \* scheduler_thread = None
NumThreads        == 2     \* telebot.TeleBot(bot_token): threaded, num_threads=2
MainThread        == 0     \* the thread of main(), which runs the inbound loop

Days        == 0..((Horizon + Quantum) \div DayLen)
Threads     == 1..MaxThreads
JobIds      == {"daily"}             \* the job object __init__ registers
NewJobNames == <<"r1", "r2", "r3", "r4">>
NewJobIds   == {NewJobNames[i] : i \in 1..MaxReschedules}  \* those of reschedule
AllJobs     == JobIds \cup NewJobIds
NoTime      == 0 - 1                 \* at_time of a job object not created yet
NewTimes    == {30, 90}              \* offsets reschedule() is called with
RetryDelays == {0, DefaultRetryDelay}
FireTimes   == {60}                  \* offsets of config.schedule_time explored
BotKinds    == {"TelegramBot", "Propagating"}

VARIABLES
  bot,               \* which bot the scheduler was constructed with
  config,            \* [retry_attempts, retry_delay, schedule_time]
  running,           \* MessageScheduler.running
  scheduler_thread,  \* MessageScheduler.scheduler_thread (NoThread = None)
  jobs,              \* schedule.jobs: the registered job ids
  next_run,          \* next_run of each job object
  at_time,           \* at_time of each job object
  thr,               \* per background thread: position and locals
  fire,              \* per background thread: record of its current/last firing
  mainpc,            \* position of the thread calling start()/stop()
  joinDeadline,      \* when the join of stop() times out
  lastOp,            \* the last call of the API that returned
  startups,          \* startup notifications start() has sent
  launched,          \* threads launched so far
  arrived,           \* days whose fire time came while running was true
  fired,             \* per day: times the job was invoked for that day's fire time
  now,               \* the clock
  nr,                \* a call of get_next_run_time: its inputs and its result
  connection,        \* HabitTracker.connection: "open" or "closed"
  committed,         \* the database: rows of users and of habit_entries
  pending,           \* writes of the connection's open transaction
  cl,                \* per calling thread: its call of the persistence layer
  hist,              \* the day, the SERIAL counter and counts of what happened
  lm,                \* LanguageManager.languages and a call of one of its methods
  rt,                \* the inbound loop: its worker threads and what they handled
  boot               \* main(): its inputs, its position and the exit status

dbVars   == <<connection, committed, pending, cl, hist>>
appVars  == <<lm, rt, boot>>
env      == <<bot, config, nr, at_time, dbVars, appVars>>
schedVars == <<running, scheduler_thread, jobs, next_run>>
mainVars == <<mainpc, joinDeadline, lastOp, startups, launched>>
obsVars  == <<arrived, fired>>

vars == <<bot, config, running, scheduler_thread, jobs, next_run, at_time, thr, fire,
          mainpc, joinDeadline, lastOp, startups, launched, arrived, fired,
          now, nr, connection, committed, pending, cl, hist, lm, rt, boot>>

\* ------------------------------------------------------ persistence: data
Users     == {1, 2}
EntryDates == {0, 1}                     \* CURRENT_DATE: a day and the next
Languages == {"english", "arabic"}
Clients   == {"scheduler", "router"}     \* the threads that call HabitTracker
Other(c)  == CHOOSE d \in Clients : d # c

\* an optional value: <<>> is None, <<v>> is v
None == <<>>
Some(v) == <<v>>

NoCallYet ==
  [top |-> "none", user_id |-> 0, language |-> "", ret |-> None,
   raised |-> FALSE, clean |-> TRUE, norow |-> FALSE, want |-> 0,
   quiet |-> TRUE, id |-> 0, fails |-> {}, reconnects |-> 0]

\* cur is the call in progress, last the call that just returned, prev the call
\* before that
IdleClient ==
  [pc |-> "idle", prim |-> "none", sub |-> 0, acc |-> <<>>,
   cur |-> NoCallYet, last |-> NoCallYet, prev |-> NoCallYet]

\* HabitTracker.__init__ succeeded: connected, both tables exist and are empty
DbInit ==
  /\ connection = "open"
  /\ committed = [users |-> <<>>, habit_entries |-> <<>>]
  /\ pending = <<>>
  /\ cl = [c \in Clients |-> IdleClient]
  /\ hist = [today |-> 0, serial |-> 0, faults |-> 0, calls |-> 0,
             sets |-> [u \in Users |-> 0], adds |-> [u \in Users |-> 0]]

\* no method of LanguageManager has been called
NoLm == [stage |-> "none"]

\* an update that is none, and a worker thread without a task
NoUpdate == [kind |-> "none", user |-> 0, data |-> "", seq |-> 0, at |-> 0]

\* no handler has run; habit_tracker is set
IdleRouter ==
  [habit_tracker |-> TRUE,
   workers  |-> [w \in 1..NumThreads |-> NoUpdate],
   received |-> 0,
   faults   |-> 0,
   recognized |-> [u \in Users |-> 0],
   last     |-> [kind |-> "none", user |-> 0, data |-> "", seq |-> 0, at |-> 0,
                 outcome |-> "none", confirmed |-> FALSE, failed |-> FALSE,
                 replies |-> {}, stored |-> FALSE]]

\* main() is not being followed
NoBoot == [pc |-> "none"]

AppInit == lm = NoLm /\ rt = IdleRouter /\ boot = NoBoot

\* ------------------------------------------------------------------ time
\* The first time strictly after t whose time of day is off: what schedule's
\* Job._schedule_next_run computes for every().day.at(off).
NextOccurrence(t, off) ==
  LET today == (t \div DayLen) * DayLen + off
  IN  IF today > t THEN today ELSE today + DayLen

DayOf(t) == t \div DayLen

\* the fire time of day d
FireTimeOf(d) == d * DayLen + config.schedule_time

\* ------------------------------------------------------------- the bot
\* TelegramBot.send_daily_message: everything is inside try/except Exception;
\* on a failure it sends an error message (whose own failure is swallowed) and
\* returns normally.
TelegramDaily(buildOk, sendOk, errOk) ==
  [raised       |-> FALSE,
   delivered    |-> buildOk /\ sendOk,
   sendFailed   |-> buildOk /\ ~sendOk,
   errDelivered |-> ~(buildOk /\ sendOk) /\ errOk]

\* A bot whose daily job lets a failure reach its caller, as the Notification
\* Channel contract words it.
PropagatingDaily(buildOk, sendOk, errOk) ==
  [raised       |-> ~(buildOk /\ sendOk),
   delivered    |-> buildOk /\ sendOk,
   sendFailed   |-> buildOk /\ ~sendOk,
   errDelivered |-> FALSE]

send_daily_message(kind, buildOk, sendOk, errOk) ==
  IF kind = "TelegramBot" THEN TelegramDaily(buildOk, sendOk, errOk)
                          ELSE PropagatingDaily(buildOk, sendOk, errOk)

\* ----------------------------------------------- _send_scheduled_message
\* while attempt <= max_attempts
LoopCond(attempt, max_attempts) == attempt <= max_attempts

\* A loop that sleeps after the last failed attempt too and never notifies.
RetryStepNoGiveUp(attempt, max_attempts, raised) ==
  IF ~raised THEN "return"
  ELSE IF attempt <= max_attempts THEN "sleep"
  ELSE "notify"

\* A loop that goes on after a successful attempt while attempts are left.
RetryStepPastSuccess(attempt, max_attempts, raised) ==
  IF attempt < max_attempts THEN "sleep"
  ELSE IF ~raised THEN "return"
  ELSE "notify"

\* The body of the loop after bot.send_daily_message(): return when it did not
\* raise; otherwise sleep and retry while attempts are left, else notify.
RetryStep(attempt, max_attempts, raised) ==
  IF ~raised THEN "return"
  ELSE IF attempt < max_attempts THEN "sleep"
  ELSE "notify"

IdleFire ==
  [phase |-> "idle", tried |-> 0, raised |-> 0, slept |-> 0, sleptSecs |-> 0,
   notes |-> 0, noteLost |-> FALSE, sendFailed |-> 0, failDelivered |-> 0]

\* the record of the firing after one more call of bot.send_daily_message
Tried(f, r) ==
  [f EXCEPT !.tried         = @ + 1,
            !.raised        = @ + (IF r.raised THEN 1 ELSE 0),
            !.sendFailed    = @ + (IF r.sendFailed THEN 1 ELSE 0),
            !.failDelivered = @ + (IF r.errDelivered THEN 1 ELSE 0)]

\* ---------------------------------------------------------------- state
Sleeping == {"pollSleep", "errSleep", "retrySleep"}
Alive(t) == thr[t].pc \notin {"none", "dead"}
AliveThreads == {t \in Threads : Alive(t)}
Stops == {"stop", "stop_again"}

NoCall == [stage |-> "none"]

\* MessageScheduler.__init__: running = False, scheduler_thread = None,
\* _setup_schedule() registers the daily job
SchedInit ==
  /\ running = FALSE
  /\ scheduler_thread = NoThread
  /\ jobs = JobIds
  /\ at_time = [j \in AllJobs |->
                  IF j \in JobIds THEN config.schedule_time ELSE NoTime]
  /\ next_run = [j \in AllJobs |->
                   IF j \in JobIds THEN NextOccurrence(0, config.schedule_time)
                                   ELSE 0]
  /\ thr = [t \in Threads |-> [pc |-> "none", wake |-> 0, attempt |-> 0,
                               job |-> "none"]]
  /\ fire = [t \in Threads |-> IdleFire]
  /\ mainpc = "idle"
  /\ joinDeadline = 0
  /\ lastOp = "none"
  /\ startups = 0
  /\ launched = 0
  /\ arrived = {}
  /\ fired = [d \in Days |-> 0]
  /\ now = 0

Init ==
  /\ bot \in BotKinds
  /\ config \in [retry_attempts : 0..MaxAttempts,
                 retry_delay    : RetryDelays,
                 schedule_time  : FireTimes]
  /\ nr = NoCall
  /\ SchedInit
  /\ DbInit
  /\ AppInit

\* ------------------------------------------------------ schedule registry
\* schedule.run_pending: the registered jobs whose next_run has been reached
Runnable == {j \in jobs : now >= next_run[j]}

\* a stop() that leaves the registry as it is
KeptJobs == jobs

\* schedule.clear()
ClearedJobs == {}

\* Job.run after job_func returned: reschedule the job object, then
\* run_pending returns and the loop sleeps 30 seconds
FinishRun(t) ==
  /\ next_run' = [next_run EXCEPT ![thr[t].job] =
                                    NextOccurrence(now, at_time[thr[t].job])]
  /\ thr' = [thr EXCEPT ![t] = [pc |-> "pollSleep", wake |-> now + PollSleep,
                                attempt |-> 0, job |-> "none"]]

\* ------------------------------------------------------- _run_scheduler
\* a loop that lets the exception of run_pending end the thread
AfterPollErrorExit(t) ==
  [pc |-> "dead", wake |-> 0, attempt |-> 0, job |-> "none"]

\* what the loop does with an exception of run_pending: log, sleep 60, loop
AfterPollError(t) ==
  [pc |-> "errSleep", wake |-> now + ErrorSleep, attempt |-> 0, job |-> "none"]

\* while self.running: false, the thread returns
Exit(t) ==
  /\ thr[t].pc = "loop"
  /\ ~running
  /\ thr' = [thr EXCEPT ![t] = [pc |-> "dead", wake |-> 0, attempt |-> 0,
                                job |-> "none"]]
  /\ UNCHANGED <<env, schedVars, fire, mainVars, obsVars, now>>

\* run_pending raises
PollError(t) ==
  /\ thr[t].pc = "loop"
  /\ running
  /\ thr' = [thr EXCEPT ![t] = AfterPollError(t)]
  /\ UNCHANGED <<env, schedVars, fire, mainVars, obsVars, now>>

\* run_pending finds nothing due; time.sleep(30)
PollIdle(t) ==
  /\ thr[t].pc = "loop"
  /\ running
  /\ Runnable = {}
  /\ thr' = [thr EXCEPT ![t] = [pc |-> "pollSleep", wake |-> now + PollSleep,
                                attempt |-> 0, job |-> "none"]]
  /\ UNCHANGED <<env, schedVars, fire, mainVars, obsVars, now>>

\* run_pending finds the job due and calls _send_scheduled_message: attempt = 1
PollFire(t) ==
  /\ thr[t].pc = "loop"
  /\ running
  /\ \E j \in Runnable :
       /\ fired' = [fired EXCEPT ![DayOf(next_run[j])] = @ + 1]
       /\ thr' = [thr EXCEPT ![t] = [pc |-> "attempt", wake |-> 0,
                                     attempt |-> 1, job |-> j]]
  /\ fire' = [fire EXCEPT ![t] = [IdleFire EXCEPT !.phase = "firing"]]
  /\ UNCHANGED <<env, schedVars, mainVars, arrived, now>>

\* the loop test fails: _send_scheduled_message returns
LoopExit(t) ==
  /\ thr[t].pc = "attempt"
  /\ ~LoopCond(thr[t].attempt, config.retry_attempts)
  /\ fire' = [fire EXCEPT ![t].phase = "done"]
  /\ FinishRun(t)
  /\ UNCHANGED <<env, running, scheduler_thread, jobs, mainVars, obsVars, now>>

\* the attempt returns normally: "Daily message sent successfully", return
AttemptOk(t) ==
  /\ thr[t].pc = "attempt"
  /\ LoopCond(thr[t].attempt, config.retry_attempts)
  /\ \E buildOk, sendOk, errOk \in BOOLEAN :
       LET r == send_daily_message(bot, buildOk, sendOk, errOk)
       IN  /\ RetryStep(thr[t].attempt, config.retry_attempts, r.raised) = "return"
           /\ fire' = [fire EXCEPT ![t] = [Tried(@, r) EXCEPT !.phase = "done"]]
  /\ FinishRun(t)
  /\ UNCHANGED <<env, running, scheduler_thread, jobs, mainVars, obsVars, now>>

\* the attempt raises and attempts are left: time.sleep(retry_delay)
AttemptRetry(t) ==
  /\ thr[t].pc = "attempt"
  /\ LoopCond(thr[t].attempt, config.retry_attempts)
  /\ \E buildOk, sendOk, errOk \in BOOLEAN :
       LET r == send_daily_message(bot, buildOk, sendOk, errOk)
       IN  /\ RetryStep(thr[t].attempt, config.retry_attempts, r.raised) = "sleep"
           /\ fire' = [fire EXCEPT ![t] =
                         [Tried(@, r) EXCEPT !.slept = @ + 1,
                                             !.sleptSecs = @ + config.retry_delay]]
  /\ thr' = [thr EXCEPT ![t].pc = "retrySleep",
                        ![t].wake = now + config.retry_delay]
  /\ UNCHANGED <<env, schedVars, mainVars, obsVars, now>>

\* the last attempt raises: bot.send_message(error_msg), its failure swallowed;
\* attempt += 1 ends the loop and the function returns
AttemptGiveUp(t) ==
  /\ thr[t].pc = "attempt"
  /\ LoopCond(thr[t].attempt, config.retry_attempts)
  /\ \E buildOk, sendOk, errOk, noteOk \in BOOLEAN :
       LET r == send_daily_message(bot, buildOk, sendOk, errOk)
       IN  /\ RetryStep(thr[t].attempt, config.retry_attempts, r.raised) = "notify"
           /\ fire' = [fire EXCEPT ![t] =
                         [Tried(@, r) EXCEPT
                            !.notes = @ + 1,
                            !.noteLost = ~noteOk,
                            !.failDelivered = @ + (IF noteOk THEN 1 ELSE 0),
                            !.phase = "done"]]
  /\ FinishRun(t)
  /\ UNCHANGED <<env, running, scheduler_thread, jobs, mainVars, obsVars, now>>

\* the retry sleep ends: attempt += 1, back to the loop test
WakeRetry(t) ==
  /\ thr[t].pc = "retrySleep"
  /\ now >= thr[t].wake
  /\ thr' = [thr EXCEPT ![t].pc = "attempt", ![t].wake = 0,
                        ![t].attempt = @ + 1]
  /\ UNCHANGED <<env, schedVars, fire, mainVars, obsVars, now>>

\* the poll sleep or the error sleep ends: back to while self.running
WakePoll(t) ==
  /\ thr[t].pc \in {"pollSleep", "errSleep"}
  /\ now >= thr[t].wake
  /\ thr' = [thr EXCEPT ![t].pc = "loop", ![t].wake = 0]
  /\ fire' = [fire EXCEPT ![t] = IdleFire]
  /\ UNCHANGED <<env, schedVars, mainVars, obsVars, now>>

\* ---------------------------------------------------------------- start
\* if self.running: warning, return
StartGuard == ~running

StartNoop ==
  /\ mainpc = "idle"
  /\ ~StartGuard
  /\ lastOp' = "start_noop"
  /\ UNCHANGED <<env, schedVars, thr, fire, mainpc, joinDeadline, startups,
                 launched, obsVars, now>>

\* running = True; scheduler_thread = Thread(target=_run_scheduler); start()
Start ==
  /\ mainpc = "idle"
  /\ StartGuard
  /\ launched < MaxThreads
  /\ running' = TRUE
  /\ launched' = launched + 1
  /\ scheduler_thread' = launched + 1
  /\ thr' = [thr EXCEPT ![launched + 1].pc = "loop"]
  /\ mainpc' = "startNotify"
  /\ UNCHANGED <<env, jobs, next_run, fire, joinDeadline, lastOp, startups,
                 obsVars, now>>

\* bot.send_message(startup_msg), its failure logged; start() returns
StartNotify ==
  /\ mainpc = "startNotify"
  /\ startups' = startups + 1
  /\ mainpc' = "idle"
  /\ lastOp' = "start"
  /\ UNCHANGED <<env, schedVars, thr, fire, joinDeadline, launched, obsVars,
                 now>>

\* ----------------------------------------------------------------- stop
StopName == IF lastOp \in Stops THEN "stop_again" ELSE "stop"

\* scheduler_thread.join(timeout=5) returns: the thread ended or 5 s passed
JoinReady ==
  \/ thr[scheduler_thread].pc = "dead"
  \/ now >= joinDeadline

\* running = False; a thread to join
Stop ==
  /\ mainpc = "idle"
  /\ scheduler_thread # NoThread
  /\ now + JoinTimeout <= Horizon
  /\ running' = FALSE
  /\ joinDeadline' = now + JoinTimeout
  /\ mainpc' = "join"
  /\ UNCHANGED <<env, scheduler_thread, jobs, next_run, thr, fire, lastOp,
                 startups, launched, obsVars, now>>

\* the join returns; schedule.clear(); stop() returns
JoinReturn ==
  /\ mainpc = "join"
  /\ JoinReady
  /\ jobs' = ClearedJobs
  /\ mainpc' = "idle"
  /\ joinDeadline' = 0
  /\ lastOp' = StopName
  /\ UNCHANGED <<env, running, scheduler_thread, next_run, thr, fire,
                 startups, launched, obsVars, now>>

\* running = False; scheduler_thread is None: schedule.clear(); stop() returns
StopNoThread ==
  /\ mainpc = "idle"
  /\ scheduler_thread = NoThread
  /\ running' = FALSE
  /\ jobs' = ClearedJobs
  /\ lastOp' = StopName
  /\ UNCHANGED <<env, scheduler_thread, next_run, thr, fire, mainpc,
                 joinDeadline, startups, launched, obsVars, now>>

\* ---------------------------------------------------------------- clock
\* some thread has a step to take at the present instant
Busy ==
  \/ \E t \in Threads :
       \/ thr[t].pc \in {"loop", "attempt"}
       \/ thr[t].pc \in Sleeping /\ now >= thr[t].wake
  \/ mainpc \in {"startNotify", "rearm"}
  \/ mainpc = "join" /\ JoinReady

Tick ==
  /\ ~Busy
  /\ now < Horizon
  /\ now' = now + Quantum
  /\ arrived' = IF running
                THEN arrived \cup {d \in Days : now < FireTimeOf(d)
                                                /\ FireTimeOf(d) <= now'}
                ELSE arrived
  /\ UNCHANGED <<env, schedVars, thr, fire, mainVars, fired>>

\* -------------------------------------------------------- specification
ThreadStep(t) ==
  \/ Exit(t)
  \/ PollError(t)
  \/ PollIdle(t)
  \/ PollFire(t)
  \/ LoopExit(t)
  \/ AttemptOk(t)
  \/ AttemptRetry(t)
  \/ AttemptGiveUp(t)
  \/ WakeRetry(t)
  \/ WakePoll(t)

Next ==
  \/ \E t \in Threads : ThreadStep(t)
  \/ StartNoop
  \/ Start
  \/ StartNotify
  \/ Stop
  \/ JoinReturn
  \/ StopNoThread
  \/ Tick

Spec == Init /\ [][Next]_vars

\* The scheduler constructed with the default retry delay and no or the largest
\* retry count; the operating system runs every thread that has a step to take
\* and time passes.
FairInit ==
  /\ Init
  /\ config.retry_attempts \in {0, MaxAttempts}
  /\ config.retry_delay = DefaultRetryDelay

FairSpec ==
  /\ FairInit
  /\ [][Next]_vars
  /\ \A t \in Threads : WF_vars(ThreadStep(t))
  /\ WF_vars(StartNotify)
  /\ WF_vars(JoinReturn)
  /\ WF_vars(Tick)

\* ============================================================ reschedule
\* the job object the next _setup_schedule creates
NextJob ==
  NewJobNames[CHOOSE i \in 1..MaxReschedules :
                /\ at_time[NewJobNames[i]] = NoTime
                /\ \A k \in 1..(i - 1) : at_time[NewJobNames[k]] # NoTime]

\* a registration that adds nothing
NotRegistered(js, j) == js

\* Job.do: self.scheduler.jobs.append(self)
Registered(js, j) == js \cup {j}

\* reschedule(new_time): config.schedule_time = new_time; _setup_schedule
\* begins with schedule.clear()
RescheduleClear ==
  /\ mainpc = "idle"
  /\ \E j \in NewJobIds : at_time[j] = NoTime
  /\ \E new_time \in NewTimes :
       config' = [config EXCEPT !.schedule_time = new_time]
  /\ jobs' = ClearedJobs
  /\ mainpc' = "rearm"
  /\ UNCHANGED <<bot, nr, at_time, dbVars, appVars, running, scheduler_thread, next_run,
                 thr, fire, joinDeadline, lastOp, startups, launched, obsVars, now>>

\* schedule.every().day.at(self.config.schedule_time).do(...); return True
RescheduleArm ==
  /\ mainpc = "rearm"
  /\ jobs' = Registered(jobs, NextJob)
  /\ at_time' = [at_time EXCEPT ![NextJob] = config.schedule_time]
  /\ next_run' = [next_run EXCEPT ![NextJob] =
                    NextOccurrence(now, config.schedule_time)]
  /\ mainpc' = "idle"
  /\ lastOp' = "reschedule"
  /\ UNCHANGED <<bot, config, nr, dbVars, appVars, running, scheduler_thread, thr, fire,
                 joinDeadline, startups, launched, obsVars, now>>

\* The scheduler with the default retry configuration, started once and
\* rescheduled before or after that, while its thread polls, fires and retries.
ReschedInit ==
  /\ Init
  /\ config.retry_attempts = MaxAttempts
  /\ config.retry_delay = DefaultRetryDelay

ReschedThreadStep(t) ==
  \/ PollError(t)
  \/ PollIdle(t)
  \/ PollFire(t)
  \/ AttemptOk(t)
  \/ AttemptRetry(t)
  \/ AttemptGiveUp(t)
  \/ WakeRetry(t)
  \/ WakePoll(t)

ReschedNext ==
  \/ \E t \in Threads : ReschedThreadStep(t)
  \/ StartNoop
  \/ Start
  \/ StartNotify
  \/ RescheduleClear
  \/ RescheduleArm
  \/ Tick

ReschedSpec == ReschedInit /\ [][ReschedNext]_vars

\* ----- reschedule with a time at() rejects
\* a time of day that is no time of day ("25:00"): at() raises
BadTimes == {DayLen}

\* reschedule(new_time) with such a time: config.schedule_time = new_time;
\* _setup_schedule calls schedule.clear(), at() raises, the exception is
\* logged and raised again; reschedule logs it and returns False
RescheduleFail ==
  /\ mainpc = "idle"
  /\ \E new_time \in BadTimes :
       config' = [config EXCEPT !.schedule_time = new_time]
  /\ jobs' = ClearedJobs
  /\ lastOp' = "reschedule_failed"
  /\ UNCHANGED <<bot, nr, at_time, dbVars, appVars, running, scheduler_thread,
                 next_run, thr, fire, mainpc, joinDeadline, startups, launched,
                 obsVars, now>>

ReschedFailNext ==
  \/ \E t \in Threads : ReschedThreadStep(t)
  \/ Start
  \/ StartNotify
  \/ RescheduleClear
  \/ RescheduleArm
  \/ RescheduleFail
  \/ Tick

ReschedFailSpec == ReschedInit /\ [][ReschedFailNext]_vars

\* ==================================================== get_next_run_time
\* Text is a tuple of one-character strings.
Digits == <<"0", "1", "2", "3", "4", "5", "6", "7", "8", "9">>
NrHours   == {0, 9, 23}
NrMinutes == {0, 30, 59}
NrSeconds == {0, 59}
NrMicros  == {0, 999999}

\* "%02d"
Fmt2(n) == <<Digits[(n \div 10) + 1], Digits[(n % 10) + 1]>>

\* a valid HH:MM text
HHMM(h, m) == Fmt2(h) \o <<":">> \o Fmt2(m)

IsDigit(c) == \E i \in 1..10 : Digits[i] = c
DigitVal(c) == (CHOOSE i \in 1..10 : Digits[i] = c) - 1

\* int(text): defined on non-empty digit texts (anything else raises)
IsNumber(txt) == Len(txt) > 0 /\ \A i \in 1..Len(txt) : IsDigit(txt[i])

RECURSIVE ParseInt(_)
ParseInt(txt) ==
  IF Len(txt) = 0 THEN 0
  ELSE ParseInt(SubSeq(txt, 1, Len(txt) - 1)) * 10 + DigitVal(txt[Len(txt)])

\* text.split(':')
RECURSIVE Split(_)
Split(txt) ==
  IF \A i \in 1..Len(txt) : txt[i] # ":" THEN <<txt>>
  ELSE LET k == CHOOSE i \in 1..Len(txt) :
                  txt[i] = ":" /\ \A j \in 1..(i - 1) : txt[j] # ":"
       IN  <<SubSeq(txt, 1, k - 1)>> \o Split(SubSeq(txt, k + 1, Len(txt)))

\* datetime comparison a < b, both in the same timezone
DTLess(a, b) ==
  \/ a.date < b.date
  \/ a.date = b.date /\ a.hour < b.hour
  \/ a.date = b.date /\ a.hour = b.hour /\ a.minute < b.minute
  \/ a.date = b.date /\ a.hour = b.hour /\ a.minute = b.minute
       /\ a.second < b.second
  \/ a.date = b.date /\ a.hour = b.hour /\ a.minute = b.minute
       /\ a.second = b.second /\ a.micro < b.micro

\* if next_run < now
PassedStrictly(next, current) == DTLess(next, current)

\* if next_run <= now
Passed(next, current) == next = current \/ DTLess(next, current)

\* strftime("%Y-%m-%d %H:%M:%S %Z"): the date and the clock text; the
\* microseconds are not printed
Strftime(dt) ==
  [error |-> FALSE,
   date  |-> dt.date,
   clock |-> Fmt2(dt.hour) \o <<":">> \o Fmt2(dt.minute) \o <<":">>
               \o Fmt2(dt.second)]

ErrorText == [error |-> TRUE, date |-> 0, clock |-> <<>>]

get_next_run_time(schedule_time, current) ==
  LET parts == Split(schedule_time)
  IN  IF Len(parts) # 2 \/ ~IsNumber(parts[1]) \/ ~IsNumber(parts[2])
      THEN ErrorText
      ELSE
        LET hour   == ParseInt(parts[1])
            minute == ParseInt(parts[2])
        IN  IF hour > 23 \/ minute > 59
            THEN ErrorText
            ELSE
              LET replaced == [current EXCEPT !.hour = hour, !.minute = minute,
                                              !.second = 0, !.micro = 0]
                  next == IF Passed(replaced, current)
                          THEN [replaced EXCEPT !.date = @ + 1]
                          ELSE replaced
              IN  Strftime(next)

NextRunInit ==
  /\ bot = "TelegramBot"
  /\ config = [retry_attempts |-> MaxAttempts,
               retry_delay    |-> DefaultRetryDelay,
               schedule_time  |-> CHOOSE f \in FireTimes : TRUE]
  /\ SchedInit
  /\ DbInit
  /\ AppInit
  /\ nr \in [stage         : {"called"},
             schedule_time : {HHMM(h, m) : h \in NrHours, m \in NrMinutes},
             current       : [date   : 0..MaxDate,
                              hour   : NrHours,
                              minute : NrMinutes,
                              second : NrSeconds,
                              micro  : NrMicros],
             result        : {ErrorText}]

CallNextRun ==
  /\ nr.stage = "called"
  /\ nr' = [nr EXCEPT !.stage = "returned",
                      !.result = get_next_run_time(nr.schedule_time, nr.current)]
  /\ UNCHANGED <<bot, config, at_time, dbVars, appVars, schedVars, thr, fire, mainVars,
                 obsVars, now>>

SpecNextRun == NextRunInit /\ [][CallNextRun]_vars

\* ----- the next fire time as start(), /next and get_status report it
\* the timezones config.timezone is drawn from, and their offsets in hours
Timezones == {"UTC", "Asia/Riyadh"}
UtcOffset(tz) == IF tz = "UTC" THEN 0 ELSE 3

\* datetime.now(tz) at the instant given as a UTC datetime
NowIn(tz, instant) ==
  LET h == instant.hour + UtcOffset(tz)
  IN  [instant EXCEPT !.hour = h % 24, !.date = @ + (h \div 24)]

\* get_next_run_time(schedule_time, timezone_str) called at instant: the text
\* of strftime with its %Z
NextRunText(schedule_time, timezone_str, instant) ==
  LET r == get_next_run_time(schedule_time, NowIn(timezone_str, instant))
  IN  [error |-> r.error, date |-> r.date, clock |-> r.clock,
       zone  |-> IF r.error THEN "" ELSE timezone_str]

\* no text has been produced
NoText == [error |-> TRUE, date |-> 0, clock |-> <<>>, zone |-> "none"]

\* 'No jobs scheduled'
NoJobsScheduled ==
  [error |-> FALSE, date |-> 0, clock |-> <<>>, zone |-> "No jobs scheduled"]

ReportInit ==
  /\ bot = "TelegramBot"
  /\ config = [retry_attempts |-> MaxAttempts,
               retry_delay    |-> DefaultRetryDelay,
               schedule_time  |-> CHOOSE f \in FireTimes : TRUE]
  /\ SchedInit
  /\ DbInit
  /\ AppInit
  /\ nr \in [stage         : {"reports"},
             schedule_time : {HHMM(h, m) : h \in NrHours, m \in {0, 30}},
             timezone      : Timezones,
             registered    : BOOLEAN,
             instant       : [date   : 0..MaxDate,
                              hour   : NrHours,
                              minute : {0, 30},
                              second : {0},
                              micro  : {0}],
             startup       : {NoText},
             next          : {NoText},
             status        : {NoText}]

ReportRest ==
  <<bot, config, at_time, dbVars, appVars, schedVars, thr, fire, mainVars,
    obsVars, now>>

\* start(): get_next_run_time(self.config.schedule_time) in the notification
StartupText ==
  /\ nr.stage = "reports"
  /\ nr.startup = NoText
  /\ nr' = [nr EXCEPT !.startup = NextRunText(nr.schedule_time, "UTC", nr.instant)]
  /\ UNCHANGED ReportRest

\* /next: MessageScheduler.get_next_run_time(self.config.schedule_time)
NextReply ==
  /\ nr.stage = "reports"
  /\ nr.next = NoText
  /\ nr' = [nr EXCEPT !.next = NextRunText(nr.schedule_time, "UTC", nr.instant)]
  /\ UNCHANGED ReportRest

\* get_status()['next_run']
GetStatus ==
  /\ nr.stage = "reports"
  /\ nr.status = NoText
  /\ nr' = [nr EXCEPT !.status =
              IF nr.registered
              THEN NextRunText(nr.schedule_time, nr.timezone, nr.instant)
              ELSE NoJobsScheduled]
  /\ UNCHANGED ReportRest

ReportNext == StartupText \/ NextReply \/ GetStatus

SpecReport == ReportInit /\ [][ReportNext]_vars

\* ============================================= persistence: the tables
\* the rows of a table that belong to user u
RowsOf(rows, u) == SelectSeq(rows, LAMBDA r : r.user_id = u)

\* an INSERT INTO users without the ON CONFLICT clause and without the key
InsertUser(rows, u, language) ==
  Append(rows, [user_id |-> u, language |-> language])

\* INSERT INTO users ... ON CONFLICT (user_id) DO UPDATE SET language = ...
Upsert(rows, u, language) ==
  IF \E i \in 1..Len(rows) : rows[i].user_id = u
  THEN [i \in 1..Len(rows) |->
          IF rows[i].user_id = u THEN [rows[i] EXCEPT !.language = language]
                                 ELSE rows[i]]
  ELSE Append(rows, [user_id |-> u, language |-> language])

\* an INSERT INTO habit_entries that keeps one entry per user and day
InsertEntryOncePerDay(rows, row) ==
  SelectSeq(rows, LAMBDA r : ~(r.user_id = row.user_id
                               /\ r.entry_date = row.entry_date))
    \o <<row>>

\* INSERT INTO habit_entries (user_id, notes) VALUES ...
InsertEntry(rows, row) == Append(rows, row)

ApplyWrite(tbl, w) ==
  IF w.kind = "upsert"
  THEN [tbl EXCEPT !.users = Upsert(@, w.user_id, w.language)]
  ELSE [tbl EXCEPT !.habit_entries =
          InsertEntry(@, [id |-> w.id, user_id |-> w.user_id,
                          entry_date |-> w.entry_date])]

RECURSIVE ApplyAll(_, _)
ApplyAll(tbl, ws) ==
  IF ws = <<>> THEN tbl ELSE ApplyAll(ApplyWrite(tbl, Head(ws)), Tail(ws))

\* what a statement on the connection sees: the database and the writes of
\* the connection's own open transaction
View == ApplyAll(committed, pending)

\* SELECT language FROM users WHERE user_id = u; fetchone()
SelectLanguage(tbl, u) ==
  LET rs == RowsOf(tbl.users, u)
  IN  IF rs = <<>> THEN None ELSE Some(rs[1].language)

\* SELECT ... ORDER BY entry_date DESC, created_at DESC LIMIT 1; fetchone()
SelectLast(tbl, u) ==
  LET rs == RowsOf(tbl.habit_entries, u)
  IN  IF rs = <<>> THEN None
      ELSE Some(rs[CHOOSE i \in 1..Len(rs) :
                     \A k \in 1..Len(rs) :
                       \/ rs[k].entry_date < rs[i].entry_date
                       \/ rs[k].entry_date = rs[i].entry_date /\ k <= i])

\* SELECT COUNT(*) ... WHERE user_id = u
CountEntries(tbl, u) == Len(RowsOf(tbl.habit_entries, u))

\* get_days_since_last after get_last_entry returned last_entry
DaysSince(last_entry, today) ==
  IF last_entry = None THEN None ELSE Some(today - last_entry[1].entry_date)

\* ================================================ _ensure_connection
Outcomes == {"ok", "error", "lost"}

\* the connection after a statement on it failed
AfterFailure(conn, outcome) == IF outcome = "lost" THEN "closed" ELSE conn

\* _ensure_connection: with no open connection, _connect(); otherwise the
\* probe SELECT 1; any exception of either leads to _connect() in the handler.
\* probe is the outcome of the probe, c1 and c2 whether the first and the
\* second _connect succeed.
ensure_connection(conn, probe, c1, c2) ==
  IF conn = "closed"
  THEN IF c1
       THEN [connection |-> "open", fresh |-> TRUE, raised |-> FALSE,
             attempts |-> 1, faults |-> 0]
       ELSE IF c2
       THEN [connection |-> "open", fresh |-> TRUE, raised |-> FALSE,
             attempts |-> 2, faults |-> 1]
       ELSE [connection |-> "closed", fresh |-> FALSE, raised |-> TRUE,
             attempts |-> 2, faults |-> 2]
  ELSE IF probe = "ok"
       THEN [connection |-> "open", fresh |-> FALSE, raised |-> FALSE,
             attempts |-> 0, faults |-> 0]
       ELSE IF c1
       THEN [connection |-> "open", fresh |-> TRUE, raised |-> FALSE,
             attempts |-> 1, faults |-> 1]
       ELSE [connection |-> AfterFailure(conn, probe), fresh |-> FALSE,
             raised |-> TRUE, attempts |-> 1, faults |-> 2]

\* ================================================== persistence: calls
ChatUser == 1     \* int(self.chat_id), the user of the daily job

Writers == {"add_entry", "set_user_language"}

\* the calls whose predecessor in the same thread is remembered
LanguageCalls == {"get_user_language", "set_user_language"}

\* get_user_stats: get_last_entry, get_total_count, get_days_since_last (which
\* calls get_last_entry)
StatsPrims == <<"get_last_entry", "get_total_count", "get_last_entry">>

FirstPrim(top) ==
  CASE top = "get_user_stats"      -> StatsPrims[1]
    [] top = "get_days_since_last" -> "get_last_entry"
    [] OTHER                       -> top

\* the calls on the users table: the daily job reads the language of the
\* chat's user; the handlers read and set the language of any user
LangOps(c) ==
  IF c = "scheduler"
  THEN [top : {"get_user_language"}, user_id : {ChatUser}, language : {""}]
  ELSE [top : {"get_user_language"}, user_id : Users, language : {""}]
       \cup [top : {"set_user_language"}, user_id : Users, language : Languages]

\* the calls on the habit_entries table: get_user_stats for the chat's user
\* (explored from the daily job's thread), add_entry for any user and the two
\* single reads for the chat's user (from a handler's thread)
EntryOps(c) ==
  IF c = "scheduler"
  THEN [top : {"get_user_stats"}, user_id : {ChatUser}, language : {""}]
  ELSE [top : {"add_entry"}, user_id : Users, language : {""}]
       \cup [top : {"get_total_count", "get_days_since_last"},
             user_id : {ChatUser}, language : {""}]

\* what a method returns from its except branch
Fallback(r) ==
  CASE r.prim = "get_last_entry"    -> None
    [] r.prim = "get_total_count"   -> 0
    [] r.prim = "get_user_language" -> "english"
    [] r.prim = "set_user_language" -> r.cur.language
    [] OTHER                        -> None

\* the date of u's most recent entry is today
MostRecentToday(tbl, u, today) ==
  LET rs == RowsOf(tbl.habit_entries, u)
  IN  /\ rs # <<>>
      /\ \A i \in 1..Len(rs) : rs[i].entry_date <= today
      /\ \E i \in 1..Len(rs) : rs[i].entry_date = today

\* the call returns to its caller
Finished(r, cur, ret, raised, want, quiet) ==
  [IdleClient EXCEPT
     !.last = [cur EXCEPT !.ret = ret, !.raised = raised, !.want = want,
                          !.quiet = quiet],
     !.prev = r.prev]

\* Client c, whose record is r, gets value from the method r.prim (failed: from
\* its except branch): what the calling method does with it.
AfterPrim(c, r, value, failed, h, view) ==
  LET u   == r.cur.user_id
      cur == [r.cur EXCEPT !.clean = @ /\ ~failed,
                           !.fails = IF failed THEN @ \cup {r.sub} ELSE @]
      otherAdding == /\ cl[Other(c)].pc # "idle"
                     /\ cl[Other(c)].cur.top = "add_entry"
                     /\ cl[Other(c)].cur.user_id = u
  IN  CASE r.cur.top = "add_entry" ->
             Finished(r, cur, IF failed THEN None ELSE value, failed, 0, TRUE)
        [] r.cur.top = "get_total_count" ->
             Finished(r, cur, value, FALSE, h.adds[u], ~otherAdding)
        [] r.cur.top = "get_days_since_last" ->
             Finished(r, cur, DaysSince(value, h.today), FALSE,
                      IF MostRecentToday(view, u, h.today) THEN 1 ELSE 0,
                      ~otherAdding)
        [] r.cur.top = "get_user_stats" ->
             IF r.sub < Len(StatsPrims)
             THEN [r EXCEPT !.pc = "ensure", !.sub = @ + 1,
                            !.prim = StatsPrims[r.sub + 1],
                            !.acc = Append(@, value), !.cur = cur]
             ELSE Finished(r, cur,
                           Some([last_entry      |-> r.acc[1],
                                 total_count     |-> r.acc[2],
                                 days_since_last |-> DaysSince(value, h.today)]),
                           FALSE, 0, TRUE)
        [] r.cur.top = "set_user_language" ->
             Finished(r, cur, value, FALSE, 0, TRUE)
        [] OTHER ->   \* get_user_language
             IF r.prim = "set_user_language" \/ failed
             THEN Finished(r, cur, value, FALSE, 0, TRUE)
             ELSE IF value = None
             THEN [r EXCEPT !.pc = "ensure", !.prim = "set_user_language",
                            !.cur = [cur EXCEPT !.language = "english",
                                                !.norow = TRUE]]
             ELSE Finished(r, cur, value[1], FALSE, 0, TRUE)

\* add_entry returned its row
HistAfter(r, failed, h) ==
  IF r.cur.top = "add_entry" /\ ~failed
  THEN [h EXCEPT !.adds[r.cur.user_id] = @ + 1]
  ELSE h

\* the transaction's writes after a method's except branch ran on connection
\* conn: gone with a closed connection, rolled back by add_entry and
\* set_user_language, left alone by the reading methods
AfterExcept(r, conn) ==
  IF conn = "closed" \/ r.prim \in Writers THEN <<>> ELSE pending

schedAll0 == <<bot, config, nr, at_time, schedVars, thr, fire, mainVars,
               obsVars, now>>

schedAll == <<schedAll0, appVars>>

\* a handler or the daily job calls a method of HabitTracker
DbCall(c, ops) ==
  /\ cl[c].pc = "idle"
  /\ hist.calls < MaxCalls
  /\ \E op \in ops :
       /\ cl' = [cl EXCEPT ![c] =
                   [@ EXCEPT !.pc = "ensure", !.prim = FirstPrim(op.top),
                             !.sub = 1, !.acc = <<>>,
                             !.last = NoCallYet,
                             !.prev = IF cl[c].last.top \in LanguageCalls
                                      THEN cl[c].last ELSE NoCallYet,
                             !.cur = [NoCallYet EXCEPT
                                        !.top = op.top,
                                        !.user_id = op.user_id,
                                        !.language = op.language]]]
       /\ hist' = [hist EXCEPT
                     !.calls = @ + 1,
                     !.sets[op.user_id] =
                        @ + (IF op.top = "set_user_language" THEN 1 ELSE 0)]
  /\ UNCHANGED <<schedAll, connection, committed, pending>>

\* self._ensure_connection()
DbEnsure(c) ==
  /\ cl[c].pc = "ensure"
  /\ \E probe \in Outcomes, c1, c2 \in BOOLEAN :
       LET e == ensure_connection(connection, probe, c1, c2)
           h == [hist EXCEPT !.faults = @ + e.faults]
           r == [cl[c] EXCEPT !.cur.reconnects =
                                 IF e.attempts > @ THEN e.attempts ELSE @]
       IN  /\ h.faults <= MaxFaults
           /\ connection' = e.connection
           /\ pending' = IF e.fresh THEN <<>>
                         ELSE IF e.raised THEN AfterExcept(r, e.connection)
                         ELSE pending
           /\ cl' = [cl EXCEPT ![c] =
                       IF e.raised
                       THEN AfterPrim(c, r, Fallback(r), TRUE, h, committed)
                       ELSE [r EXCEPT !.pc = "exec"]]
           /\ hist' = h
  /\ UNCHANGED <<schedAll, committed>>

\* with self.connection.cursor() as cursor: cursor.execute(...); fetchone()
DbExec(c) ==
  /\ cl[c].pc = "exec"
  /\ \E out \in Outcomes :
       LET r    == cl[c]
           u    == r.cur.user_id
           eff  == IF connection = "closed" THEN "error" ELSE out
           h    == [hist EXCEPT !.faults =
                      @ + (IF connection = "open" /\ out # "ok" THEN 1 ELSE 0)]
           id   == hist.serial + 1
           conn == AfterFailure(connection, eff)
       IN  /\ h.faults <= MaxFaults
           /\ committed' = committed
           /\ IF eff # "ok"
              THEN /\ connection' = conn
                   /\ pending' = AfterExcept(r, conn)
                   /\ cl' = [cl EXCEPT ![c] =
                               AfterPrim(c, r, Fallback(r), TRUE, h, committed)]
                   /\ hist' = h
              ELSE /\ connection' = connection
                   /\ CASE r.prim = "add_entry" ->
                             /\ pending' = Append(pending,
                                   [kind |-> "insert", id |-> id, user_id |-> u,
                                    entry_date |-> hist.today])
                             /\ cl' = [cl EXCEPT ![c] =
                                  [r EXCEPT !.pc = "commit", !.cur.id = id,
                                            !.acc = <<Some([id |-> id,
                                                       user_id |-> u,
                                                       entry_date |-> hist.today])>>]]
                             /\ hist' = [h EXCEPT !.serial = id]
                        [] r.prim = "set_user_language" ->
                             /\ pending' = Append(pending,
                                   [kind |-> "upsert", user_id |-> u,
                                    language |-> r.cur.language])
                             /\ cl' = [cl EXCEPT ![c] =
                                  [r EXCEPT !.pc = "commit",
                                            !.acc = <<r.cur.language>>]]
                             /\ hist' = h
                        [] OTHER ->
                             /\ pending' = pending
                             /\ cl' = [cl EXCEPT ![c] =
                                  AfterPrim(c, r,
                                    CASE r.prim = "get_last_entry" ->
                                           SelectLast(View, u)
                                      [] r.prim = "get_total_count" ->
                                           CountEntries(View, u)
                                      [] OTHER -> SelectLanguage(View, u),
                                    FALSE, h, View)]
                             /\ hist' = h
  /\ UNCHANGED schedAll

\* self.connection.commit(); return
DbCommit(c) ==
  /\ cl[c].pc = "commit"
  /\ \E out \in Outcomes :
       LET r    == cl[c]
           eff  == IF connection = "closed" THEN "error" ELSE out
           h    == [hist EXCEPT !.faults =
                      @ + (IF connection = "open" /\ out # "ok" THEN 1 ELSE 0)]
           conn == AfterFailure(connection, eff)
       IN  /\ h.faults <= MaxFaults
           /\ connection' = conn
           /\ pending' = <<>>
           /\ committed' = IF eff = "ok" THEN View ELSE committed
           /\ cl' = [cl EXCEPT ![c] =
                       IF eff = "ok"
                       THEN AfterPrim(c, r, r.acc[1], FALSE, h, View)
                       ELSE AfterPrim(c, r, Fallback(r), TRUE, h, committed)]
           /\ hist' = HistAfter(r, eff # "ok", h)
  /\ UNCHANGED schedAll

\* midnight
NewDay ==
  /\ hist.today + 1 \in EntryDates
  /\ hist' = [hist EXCEPT !.today = @ + 1]
  /\ UNCHANGED <<schedAll, connection, committed, pending, cl>>

\* The bot constructed with a database: the daily job's thread and a handler
\* thread call the persistence layer.
DbSpecInit ==
  /\ bot = "TelegramBot"
  /\ config = [retry_attempts |-> MaxAttempts,
               retry_delay    |-> DefaultRetryDelay,
               schedule_time  |-> CHOOSE f \in FireTimes : TRUE]
  /\ nr = NoCall
  /\ SchedInit
  /\ DbInit
  /\ AppInit

LangCall(c) == DbCall(c, LangOps(c))

EntryCall(c) == DbCall(c, EntryOps(c))

LangNext ==
  \E c \in Clients : LangCall(c) \/ DbEnsure(c) \/ DbExec(c) \/ DbCommit(c)

EntryNext ==
  \/ \E c \in Clients : EntryCall(c) \/ DbEnsure(c) \/ DbExec(c) \/ DbCommit(c)
  \/ NewDay

LangSpec == DbSpecInit /\ [][LangNext]_vars

EntrySpec == DbSpecInit /\ [][EntryNext]_vars

\* ======================================= LanguageManager: the classifier
\* A text is a sequence of characters; a value that is not a str has no
\* characters and no lower().
Str(chars) == [type |-> "str", chars |-> chars]
PyNone == [type |-> "NoneType", chars |-> <<>>]

\* str.lower on the Latin letters; every other character is left as it is
LowerCase ==
  [A |-> "a", B |-> "b", C |-> "c", D |-> "d", E |-> "e", F |-> "f",
   G |-> "g", H |-> "h", I |-> "i", J |-> "j", K |-> "k", L |-> "l",
   M |-> "m", N |-> "n", O |-> "o", P |-> "p", Q |-> "q", R |-> "r",
   S |-> "s", T |-> "t", U |-> "u", V |-> "v", W |-> "w", X |-> "x",
   Y |-> "y", Z |-> "z"]

lower(chars) ==
  [i \in 1..Len(chars) |->
     IF chars[i] \in DOMAIN LowerCase THEN LowerCase[chars[i]] ELSE chars[i]]

\* pattern in text_lower
Contains(chars, pattern) ==
  \E i \in 0..(Len(chars) - Len(pattern)) :
    SubSeq(chars, i + 1, i + Len(pattern)) = pattern

\* the list get_habit_patterns returns for every language but arabic
EnglishPatterns ==
  <<<<"i", " ", "d", "i", "d", " ", "i", "t">>,
     <<"d", "i", "d", " ", "i", "t">>,
     <<"s", "l", "i", "p", "p", "e", "d", " ", "u", "p">>,
     <<"h", "a", "d", " ", "t", "h", "e", " ", "h", "a", "b", "i", "t">>,
     <<"r", "e", "l", "a", "p", "s", "e", "d">>,
     <<"f", "e", "l", "l", " ", "b", "a", "c", "k">>,
     <<"m", "e", "s", "s", "e", "d", " ", "u", "p">>,
     <<"g", "a", "v", "e", " ", "i", "n">>,
     <<"h", "a", "p", "p", "e", "n", "e", "d", " ", "a", "g", "a", "i", "n">>,
     <<"w", "e", "n", "t", " ", "b", "a", "c", "k", " ", "t", "o", " ", "i", "t">>,
     <<"d", "i", "d", " ", "t", "h", "e", " ", "t", "h", "i", "n", "g">>,
     <<"b", "r", "o", "k", "e", " ", "m", "y", " ", "s", "t", "r", "e", "a", "k">>,
     <<"c", "o", "u", "l", "d", "n", "'", "t", " ", "r", "e", "s", "i", "s", "t">>,
     <<"l", "o", "s", "t", " ", "c", "o", "n", "t", "r", "o", "l">>>>

\* the list get_habit_patterns returns from its except branch
FallbackPatterns == <<EnglishPatterns[2], EnglishPatterns[3]>>

\* phrases of an arabic.json: letters without case, and one phrase written
\* with a capital Latin letter
ArabicPhrases ==
  <<<<"ayn", "dal", "ta">>, <<"fa", "ayn", "lam">>, <<"R", "e">>>>

\* what load_languages leaves in self.languages['arabic']: nothing when a file
\* could not be loaded, else the bundle, with or without a habit_patterns list
ArabicBundles ==
  {[habit_patterns |-> opt] :
     opt \in {None, Some(<<>>), Some(<<ArabicPhrases[1]>>), Some(ArabicPhrases)}}

LanguageStates ==
  {[loaded |-> FALSE, arabic |-> [habit_patterns |-> None]]}
    \cup [loaded : {TRUE}, arabic : ArabicBundles]

\* get_habit_patterns: value is the list returned, problem whether the except
\* branch was taken (self.languages['arabic'] raised KeyError)
get_habit_patterns(languages, language) ==
  IF language = "arabic"
  THEN IF ~languages.loaded
       THEN [value |-> FallbackPatterns, problem |-> TRUE]
       ELSE [value |-> IF languages.arabic.habit_patterns = None
                       THEN <<>>
                       ELSE languages.arabic.habit_patterns[1],
             problem |-> FALSE]
  ELSE [value |-> EnglishPatterns, problem |-> FALSE]

\* is_habit_message: text.lower() raises for a text that is not a str, and the
\* except branch returns False
is_habit_message(languages, text, language) ==
  LET patterns == get_habit_patterns(languages, language)
  IN  IF text.type # "str"
      THEN [value |-> FALSE, raised |-> FALSE, problem |-> TRUE]
      ELSE [value  |-> \E i \in 1..Len(patterns.value) :
                          Contains(lower(text.chars), patterns.value[i]),
            raised |-> FALSE,
            problem |-> patterns.problem]

\* ----- the texts explored
UpperCase ==
  [a |-> "A", b |-> "B", c |-> "C", d |-> "D", e |-> "E", f |-> "F",
   g |-> "G", h |-> "H", i |-> "I", j |-> "J", k |-> "K", l |-> "L",
   m |-> "M", n |-> "N", o |-> "O", p |-> "P", q |-> "Q", r |-> "R",
   s |-> "S", t |-> "T", u |-> "U", v |-> "V", w |-> "W", x |-> "X",
   y |-> "Y", z |-> "Z"]

upper(chars) ==
  [i \in 1..Len(chars) |->
     IF chars[i] \in DOMAIN UpperCase THEN UpperCase[chars[i]] ELSE chars[i]]

\* a phrase without its last character
Clipped(chars) == SubSeq(chars, 1, Len(chars) - 1)

Cores ==
  {EnglishPatterns[i] : i \in 1..Len(EnglishPatterns)}
    \cup {Clipped(EnglishPatterns[i]) : i \in 1..Len(EnglishPatterns)}
    \cup {ArabicPhrases[i] : i \in 1..Len(ArabicPhrases)}
    \cup {lower(ArabicPhrases[3]), <<>>}

Affixes == {<<>>, <<"x">>, <<" ">>}

Casings == {"typed", "capitalized", "upper"}

Cased(chars, casing) ==
  CASE casing = "upper"       -> upper(chars)
    [] casing = "capitalized" -> IF chars = <<>> THEN chars
                                 ELSE upper(<<Head(chars)>>) \o Tail(chars)
    [] OTHER                  -> chars

Texts ==
  {PyNone} \cup
  {Str(pre \o Cased(core, casing) \o post) :
     pre \in Affixes, core \in Cores, casing \in Casings, post \in Affixes}

\* the language argument: the two languages and an unknown one
LanguageArgs == Languages \cup {"french"}

\* is_habit_message is called on a LanguageManager whose files loaded or not
ClassifyInit ==
  /\ bot = "TelegramBot"
  /\ config = [retry_attempts |-> MaxAttempts,
               retry_delay    |-> DefaultRetryDelay,
               schedule_time  |-> CHOOSE f \in FireTimes : TRUE]
  /\ nr = NoCall
  /\ SchedInit
  /\ DbInit
  /\ rt = IdleRouter
  /\ boot = NoBoot
  /\ lm \in [stage     : {"called"},
             languages : LanguageStates,
             text      : Texts,
             language  : LanguageArgs,
             result    : {[value |-> FALSE, raised |-> FALSE,
                           problem |-> FALSE]}]

CallIsHabitMessage ==
  /\ lm.stage = "called"
  /\ lm' = [lm EXCEPT !.stage = "returned",
                      !.result = is_habit_message(lm.languages, lm.text,
                                                  lm.language)]
  /\ UNCHANGED <<bot, config, nr, at_time, dbVars, rt, boot, schedVars, thr,
                 fire, mainVars, obsVars, now>>

SpecClassify == ClassifyInit /\ [][CallIsHabitMessage]_vars

\* ----- /status beside another handler
\* The TeleBot pool has two worker threads (bot.py 26).  Here both calling
\* threads are workers: "router" handles /status of the chat's user (send_status
\* calls get_user_stats, and get_user_language through _get_text), the other
\* one handles that user's language callback or habit message.
ReadOps ==
  {"get_last_entry", "get_total_count", "get_days_since_last", "get_user_stats"}

StatusOps(c) ==
  IF c = "router"
  THEN [top : {"get_user_stats", "get_user_language"}, user_id : {ChatUser},
        language : {""}]
  ELSE [top : {"set_user_language"}, user_id : {ChatUser}, language : {"arabic"}]
       \cup [top : {"add_entry"}, user_id : {ChatUser}, language : {""}]

StatusCall(c) == DbCall(c, StatusOps(c))

StatusNext ==
  \E c \in Clients : StatusCall(c) \/ DbEnsure(c) \/ DbExec(c) \/ DbCommit(c)

StatusSpec == DbSpecInit /\ [][StatusNext]_vars

\* ========================================== LanguageManager: get_text
\* A template is a sequence of parts: literal text and {name} placeholders.
Lit(v)  == [kind |-> "lit", v |-> v]
Hole(v) == [kind |-> "hole", v |-> v]

TextNotFound     == <<Lit("Text not found")>>
ErrorLoadingText == <<Lit("Error loading text")>>

\* a category of a bundle: a dict of templates, or (daily_messages,
\* habit_patterns) a list
Dict(items) == [type |-> "dict", items |-> items]
List == [type |-> "list", items |-> <<>>]

\* the bundle load_languages builds when a file could not be loaded
FallbackBundle ==
  [commands |-> Dict([welcome |-> <<Lit("Welcome! Language files not found.")>>]),
   general  |-> Dict([error |-> <<Lit("Error loading languages")>>])]

\* templates a status.last_entry of a loaded file may hold
LastEntryTemplates ==
  {<<Lit("last: "), Hole("date")>>,
   <<Hole("date"), Lit(" / "), Hole("days")>>}

\* a loaded bundle whose literal texts carry the mark tag
LoadedBundle(tag, last_entry) ==
  [commands       |-> Dict([welcome |-> <<Lit(tag), Lit("welcome")>>]),
   status         |-> Dict([title      |-> <<Lit(tag), Lit("status")>>,
                            last_entry |-> <<Lit(tag)>> \o last_entry]),
   daily_messages |-> List]

\* self.languages after load_languages: both bundles, or the fallback alone
TextStates ==
  {[english |-> FallbackBundle]}
    \cup {[english |-> LoadedBundle("en ", t), arabic |-> LoadedBundle("ar ", t)] :
            t \in LastEntryTemplates}

\* a lookup without the default: an unknown language has an empty bundle
BundleOfKnown(languages, language) ==
  IF language \in DOMAIN languages THEN languages[language]
                                   ELSE [c \in {} |-> List]

\* if language not in self.languages: language = 'english'
BundleOf(languages, language) ==
  IF language \in DOMAIN languages THEN languages[language]
                                   ELSE languages["english"]

\* self.languages[language].get(category, {}).get(key, "Text not found");
\* a list has no get (AttributeError)
Lookup(bundle, category, key) ==
  IF category \notin DOMAIN bundle
  THEN [value |-> TextNotFound, threw |-> FALSE]
  ELSE IF bundle[category].type # "dict"
  THEN [value |-> TextNotFound, threw |-> TRUE]
  ELSE IF key \notin DOMAIN bundle[category].items
  THEN [value |-> TextNotFound, threw |-> FALSE]
  ELSE [value |-> bundle[category].items[key], threw |-> FALSE]

\* text.format(**kwargs): a placeholder without its argument raises KeyError
format(text, kwargs) ==
  IF \E i \in 1..Len(text) :
       text[i].kind = "hole" /\ text[i].v \notin DOMAIN kwargs
  THEN [value |-> text, threw |-> TRUE]
  ELSE [value |-> [i \in 1..Len(text) |->
                     IF text[i].kind = "hole" THEN Lit(kwargs[text[i].v])
                                              ELSE text[i]],
        threw |-> FALSE]

get_text(languages, language, category, key, kwargs) ==
  LET found == Lookup(BundleOf(languages, language), category, key)
      done  == IF DOMAIN kwargs # {} THEN format(found.value, kwargs)
                                     ELSE [value |-> found.value, threw |-> FALSE]
  IN  IF found.threw \/ done.threw
      THEN [value |-> ErrorLoadingText, raised |-> FALSE]
      ELSE [value |-> done.value, raised |-> FALSE]

\* ----- the calls explored
Categories == {"commands", "status", "daily_messages", "tracking"}
Keys       == {"welcome", "title", "last_entry", "entry_recorded"}
KwargSets  ==
  {[n \in {} |-> ""], [date |-> "2026-01-01"], [days |-> "3"],
   [date |-> "2026-01-01", days |-> "3"]}

GetTextInit ==
  /\ bot = "TelegramBot"
  /\ config = [retry_attempts |-> MaxAttempts,
               retry_delay    |-> DefaultRetryDelay,
               schedule_time  |-> CHOOSE f \in FireTimes : TRUE]
  /\ nr = NoCall
  /\ SchedInit
  /\ DbInit
  /\ rt = IdleRouter
  /\ boot = NoBoot
  /\ lm \in [stage     : {"called"},
             languages : TextStates,
             language  : LanguageArgs,
             category  : Categories,
             key       : Keys,
             kwargs    : KwargSets,
             result    : {[value |-> <<>>, raised |-> FALSE]}]

CallGetText ==
  /\ lm.stage = "called"
  /\ lm' = [lm EXCEPT !.stage = "returned",
                      !.result = get_text(lm.languages, lm.language,
                                          lm.category, lm.key, lm.kwargs)]
  /\ UNCHANGED <<bot, config, nr, at_time, dbVars, rt, boot, schedVars, thr,
                 fire, mainVars, obsVars, now>>

SpecGetText == GetTextInit /\ [][CallGetText]_vars

\* ================================== LanguageManager: get_daily_message
\* a text of a daily_messages list; the literal of the code is the default
Message(tag, n) == <<tag, n>>
DefaultDailyMessage == Message("Stay mindful today!", 0)

\* the lists a language file may configure, the empty one included
ListsOf(tag) ==
  UNION {[1..n -> {Message(tag, k) : k \in 1..MaxMessages}] : n \in 0..MaxMessages}

\* a loaded file with a daily_messages list, and one without the key
DailyBundles(tag) ==
  {[commands       |-> Dict([welcome |-> <<Lit(tag), Lit("welcome")>>]),
    daily_messages |-> l] : l \in ListsOf(tag)}
    \cup {[commands |-> Dict([welcome |-> <<Lit(tag), Lit("welcome")>>])]}

\* self.languages after load_languages: both files, or the fallback alone
DailyStates ==
  {[english |-> FallbackBundle]}
    \cup {[english |-> e, arabic |-> a] :
            e \in DailyBundles("en"), a \in DailyBundles("ar")}

\* random.choice(messages): any member; an empty list raises IndexError
choice(messages) ==
  IF messages = <<>>
  THEN {[value |-> DefaultDailyMessage, threw |-> TRUE]}
  ELSE {[value |-> messages[i], threw |-> FALSE] : i \in 1..Len(messages)}

\* The results get_daily_message can return: the language falls back to
\* 'english' when it is not loaded, the list to ['Stay mindful today!'] when
\* the bundle has no daily_messages, and any exception to the default text.
get_daily_message(languages, language) ==
  LET bundle   == BundleOf(languages, language)
      messages == IF "daily_messages" \in DOMAIN bundle
                  THEN bundle.daily_messages
                  ELSE <<DefaultDailyMessage>>
  IN  {[value  |-> IF c.threw THEN DefaultDailyMessage ELSE c.value,
        raised |-> FALSE] : c \in choice(messages)}

DailyInit ==
  /\ bot = "TelegramBot"
  /\ config = [retry_attempts |-> MaxAttempts,
               retry_delay    |-> DefaultRetryDelay,
               schedule_time  |-> CHOOSE f \in FireTimes : TRUE]
  /\ nr = NoCall
  /\ SchedInit
  /\ DbInit
  /\ rt = IdleRouter
  /\ boot = NoBoot
  /\ lm \in [stage     : {"called"},
             languages : DailyStates,
             language  : LanguageArgs,
             result    : {[value |-> <<>>, raised |-> FALSE]}]

CallGetDailyMessage ==
  /\ lm.stage = "called"
  /\ \E r \in get_daily_message(lm.languages, lm.language) :
       lm' = [lm EXCEPT !.stage = "returned", !.result = r]
  /\ UNCHANGED <<bot, config, nr, at_time, dbVars, rt, boot, schedVars, thr,
                 fire, mainVars, obsVars, now>>

SpecDaily == DailyInit /\ [][CallGetDailyMessage]_vars

\* ============================================== the inbound loop (router)
\* infinity_polling of a threaded TeleBot: the polling thread receives an
\* update, finds its handler (for a text message by evaluating the filter of
\* track_habit) and hands the handler to a worker thread of the pool; the
\* worker runs the handler.  A storage call of a handler is taken as one step
\* that succeeds or fails; the get_user_language calls of one handler succeed
\* or fail together, and so do the sends of one try block.

\* the language files loaded, with a list of Arabic phrases
RouterLanguages ==
  [loaded |-> TRUE, arabic |-> [habit_patterns |-> Some(ArabicPhrases)]]

\* the texts of the inbound text messages: index into MessageTexts
MessageTexts ==
  [habit   |-> Str(Cased(EnglishPatterns[2], "capitalized")),
   phrase  |-> Str(ArabicPhrases[1]),
   chat    |-> Str(<<"h", "i">>),
   empty   |-> Str(<<>>)]

Commands == {"start", "status", "language", "test", "next", "zip"}

Callbacks == {"lang_english", "lang_arabic", "lang_other"}

Updates ==
  [kind : Commands, user : Users, data : {""}, seq : {0}, at : {0}]
    \cup [kind : {"callback"}, user : Users, data : Callbacks, seq : {0}, at : {0}]
    \cup [kind : {"text"}, user : Users, data : DOMAIN MessageTexts, seq : {0},
           at : {0}]

\* the language stored for u; a user without a row has the default
StoredLanguage(tbl, u) ==
  IF SelectLanguage(tbl, u) = None THEN "english" ELSE SelectLanguage(tbl, u)[1]

\* the tables after a get_user_language(u) that worked: a user without a row
\* gets the default row
EnsureUser(tbl, u) ==
  IF SelectLanguage(tbl, u) = None
  THEN [tbl EXCEPT !.users = Upsert(@, u, "english")]
  ELSE tbl

\* the tables after the _get_text calls of a handler
AfterGetText(tbl, u, tracker, read_ok) ==
  IF tracker /\ read_ok THEN EnsureUser(tbl, u) ELSE tbl

\* TelegramBot._get_user_language
GetUserLanguage(tbl, u, tracker, read_ok) ==
  IF tracker /\ read_ok THEN StoredLanguage(tbl, u) ELSE "english"

\* TelegramBot._is_habit_message(message.text, message.from_user.id)
IsHabitMessage(tbl, u, text, tracker, read_ok) ==
  IF text.chars = <<>> THEN FALSE
  ELSE is_habit_message(RouterLanguages, text,
                        GetUserLanguage(tbl, u, tracker, read_ok)).value

\* try: ... except Exception: ...; self.bot.reply_to(message, error_text)
TryExcept(raised, send2_ok) ==
  IF ~raised \/ send2_ok THEN "returned" ELSE "escaped"

\* a handler without try: the failure of its send leaves the handler
NoTry(send_ok) == IF send_ok THEN "returned" ELSE "escaped"

\* the replies of track_habit that reached the chat: the reply of the try
\* block (first) when its send worked, else 'error_recording' of the except
\* branch when that send worked
Replies(first, raised, send1_ok, send2_ok) ==
  IF ~raised /\ send1_ok THEN {first}
  ELSE IF send2_ok THEN {"error_recording"}
  ELSE {}

\* The handler of update upd run on the tables tbl: the tables it leaves, how
\* it ended, whether it sent the confirmation of a language change, and for
\* track_habit the replies it sent and whether add_entry stored the entry.
Handler(upd, tbl, tracker, read_ok, write_ok, send1_ok, send2_ok) ==
  LET u     == upd.user
      read  == AfterGetText(tbl, u, tracker, read_ok)
      plain == [tables |-> read, outcome |-> "returned", confirmed |-> FALSE,
                replies |-> {}, stored |-> FALSE]
  IN  CASE upd.kind \in {"start", "language"} ->
             [plain EXCEPT !.outcome = NoTry(send1_ok)]
        [] upd.kind \in {"status", "test", "next", "zip"} ->
             [plain EXCEPT !.outcome = TryExcept(~send1_ok, send2_ok)]
        [] upd.kind = "callback" ->
             LET chosen == CASE upd.data = "lang_english" -> Some("english")
                             [] upd.data = "lang_arabic"  -> Some("arabic")
                             [] OTHER                     -> None
                 set == IF tracker /\ write_ok /\ chosen # None
                        THEN [tbl EXCEPT !.users = Upsert(@, u, chosen[1])]
                        ELSE tbl
             IN  [tables    |-> AfterGetText(set, u, tracker, read_ok),
                  outcome   |-> "returned",
                  confirmed |-> tracker /\ chosen # None /\ send1_ok,
                  replies   |-> {},
                  stored    |-> FALSE]
        [] OTHER ->   \* track_habit
             IF ~tracker
             THEN [plain EXCEPT !.outcome = TryExcept(~send1_ok, send2_ok),
                                !.replies = Replies("failed_to_record", FALSE,
                                                    send1_ok, send2_ok)]
             ELSE IF ~write_ok
             THEN [plain EXCEPT !.outcome = TryExcept(TRUE, send2_ok),
                                !.replies = Replies("entry_recorded", TRUE,
                                                    send1_ok, send2_ok)]
             ELSE [tables |-> AfterGetText(
                                [tbl EXCEPT !.habit_entries =
                                   InsertEntry(@,
                                     [id |-> Len(tbl.habit_entries) + 1,
                                      user_id |-> u,
                                      entry_date |-> hist.today,
                                      notes |-> MessageTexts[upd.data]])],
                                u, tracker, read_ok),
                   outcome   |-> TryExcept(~send1_ok, send2_ok),
                   confirmed |-> FALSE,
                   replies   |-> Replies("entry_recorded", FALSE,
                                         send1_ok, send2_ok),
                   stored    |-> TRUE]

\* the handler of upd calls add_entry or set_user_language
Writes(upd, tracker) ==
  /\ tracker
  /\ \/ upd.kind = "text"
     \/ upd.kind = "callback" /\ upd.data \in {"lang_english", "lang_arabic"}

\* the try block of the handler of upd raises and its except branch sends
Raises(upd, tracker, write_ok, send1_ok) ==
  /\ upd.kind \in {"status", "test", "next", "zip", "text"}
  /\ \/ ~send1_ok
     \/ upd.kind = "text" /\ tracker /\ ~write_ok

Falses(flags) == Cardinality({i \in DOMAIN flags : ~flags[i]})

FreeWorkers == {w \in 1..NumThreads : rt.workers[w].kind = "none"}

\* a loop that runs the daily job on the thread of main()
SleeperMain(t) == MainThread

\* The thread that sleeps in the retry sleep of the firing of background thread
\* t: _send_scheduled_message is called by run_pending in _run_scheduler, the
\* target of the thread start() launched.
Sleeper(t) == t

\* the thread of the inbound loop is inside time.sleep(retry_delay)
PollingAsleep ==
  \E t \in Threads : /\ thr[t].pc = "retrySleep"
                     /\ now < thr[t].wake
                     /\ Sleeper(t) = MainThread

\* The polling thread receives an update and dispatches it: a command or a
\* callback goes to its handler, a text message to track_habit when the filter
\* holds; the handler is queued for a worker thread.
ReceiveOf(updates, oks) ==
  /\ rt.received < MaxUpdates
  /\ FreeWorkers # {}
  /\ ~PollingAsleep
  /\ \E upd \in updates, read_ok \in oks :
       LET u       == upd.user
           w       == CHOOSE x \in FreeWorkers : \A y \in FreeWorkers : x <= y
           text    == MessageTexts[upd.data]
           isText  == upd.kind = "text"
           matched == IsHabitMessage(committed, u, text, rt.habit_tracker, read_ok)
           counts  == is_habit_message(RouterLanguages, text,
                                       StoredLanguage(committed, u)).value
           task    == [upd EXCEPT !.seq = rt.received + 1, !.at = now]
       IN  /\ read_ok \/ (isText /\ rt.habit_tracker /\ text.chars # <<>>)
           /\ rt.faults + Falses(<<read_ok>>) <= MaxFaults
           /\ committed' = IF isText
                           THEN AfterGetText(committed, u, rt.habit_tracker, read_ok)
                           ELSE committed
           /\ rt' = [rt EXCEPT
                       !.received = @ + 1,
                       !.faults = @ + Falses(<<read_ok>>),
                       !.recognized[u] = @ + (IF isText /\ counts THEN 1 ELSE 0),
                       !.workers[w] = IF isText /\ ~matched THEN NoUpdate ELSE task]
  /\ UNCHANGED <<schedAll0, lm, boot, connection, pending, cl, hist>>

Receive == ReceiveOf(Updates, BOOLEAN)

\* worker thread w runs the handler it was given
HandleOf(w, oks) ==
  /\ rt.workers[w].kind # "none"
  /\ \E read_ok, write_ok, send1_ok, send2_ok \in oks :
       LET upd   == rt.workers[w]
           flags == <<read_ok, write_ok, send1_ok, send2_ok>>
           h     == Handler(upd, committed, rt.habit_tracker,
                            read_ok, write_ok, send1_ok, send2_ok)
       IN  /\ read_ok \/ rt.habit_tracker
           /\ write_ok \/ Writes(upd, rt.habit_tracker)
           /\ send2_ok \/ Raises(upd, rt.habit_tracker, write_ok, send1_ok)
           /\ rt.faults + Falses(flags) <= MaxFaults
           /\ committed' = h.tables
           /\ rt' = [rt EXCEPT
                       !.faults = @ + Falses(flags),
                       !.workers[w] = NoUpdate,
                       !.last = [kind |-> upd.kind, user |-> upd.user,
                                 data |-> upd.data, seq |-> upd.seq,
                                 at |-> upd.at,
                                 outcome |-> h.outcome,
                                 confirmed |-> h.confirmed,
                                 failed |-> Falses(flags) > 0,
                                 replies |-> h.replies,
                                 stored |-> h.stored]]
  /\ UNCHANGED <<schedAll0, lm, boot, connection, pending, cl, hist>>

Handle(w) == HandleOf(w, BOOLEAN)

\* the bot after construction, with or without its HabitTracker
RouterInit ==
  /\ bot = "TelegramBot"
  /\ config = [retry_attempts |-> MaxAttempts,
               retry_delay    |-> DefaultRetryDelay,
               schedule_time  |-> CHOOSE f \in FireTimes : TRUE]
  /\ nr = NoCall
  /\ SchedInit
  /\ connection = "open"
  /\ committed = [users |-> <<>>, habit_entries |-> <<>>]
  /\ pending = <<>>
  /\ cl = [c \in Clients |-> IdleClient]
  /\ hist = [today |-> 0, serial |-> 0, faults |-> 0, calls |-> 0,
             sets |-> [u \in Users |-> 0], adds |-> [u \in Users |-> 0]]
  /\ lm = NoLm
  /\ boot = NoBoot
  /\ rt \in {[IdleRouter EXCEPT !.habit_tracker = t] : t \in BOOLEAN}

RouterNext == Receive \/ \E w \in 1..NumThreads : Handle(w)

RouterSpec == RouterInit /\ [][RouterNext]_vars

\* ----- the inbound loop beside the scheduler's thread
\* the updates received while the scheduler runs: habit messages of the
\* chat's user, handled without failures
InboundSample ==
  {upd \in Updates : upd.user = ChatUser /\ upd.kind = "text"
                                        /\ upd.data = "habit"}

\* bot.start_polling() follows scheduler.start() in main()
Poll ==
  /\ lastOp = "start"
  /\ rt.received < MaxInbound
  /\ ReceiveOf(InboundSample, {TRUE})

HandleOk(w) == HandleOf(w, {TRUE})

InboundNext ==
  \/ \E t \in Threads : ReschedThreadStep(t)
  \/ Start
  \/ StartNotify
  \/ Tick
  \/ Poll
  \/ \E w \in 1..NumThreads : HandleOk(w)

InboundInit == ReschedInit

InboundSpec == InboundInit /\ [][InboundNext]_vars

\* ======================================================== startup (main)
\* an environment variable that is not set
Unset == "<unset>"

\* os.getenv(name, default)
getenv(value, default) == IF value = Unset THEN default ELSE value

\* values of bot_token and chat_id: empty, or present
Credentials == {"", "set"}

\* the config file: missing (defaults are written and used), unreadable, or
\* read
ConfigFiles ==
  [state : {"missing"}, bot_token : {""}, chat_id : {""}]
    \cup [state : {"broken"}, bot_token : {""}, chat_id : {""}]
    \cup [state : {"read"}, bot_token : Credentials, chat_id : Credentials]

\* HabitTracker(): DATABASE_URL missing, psycopg2.connect refused, or connected
Databases == {"no_url", "refused", "connected"}

BootInit ==
  /\ bot = "TelegramBot"
  /\ config = [retry_attempts |-> MaxAttempts,
               retry_delay    |-> DefaultRetryDelay,
               schedule_time  |-> CHOOSE f \in FireTimes : TRUE]
  /\ nr = NoCall
  /\ SchedInit
  /\ DbInit
  /\ lm = NoLm
  /\ rt = IdleRouter
  /\ boot \in [pc        : {"main"},
               file      : ConfigFiles,
               env_token : {Unset} \cup Credentials,
               env_chat  : {Unset} \cup Credentials,
               database  : Databases,
               telegram  : BOOLEAN,      \* get_me() answers
               bot_token : {""},
               chat_id   : {""},
               habit_tracker : {FALSE},
               scheduler : {FALSE},      \* scheduler.start() was called
               status    : {0}]

BootRest == <<schedAll0, lm, rt, dbVars>>

SysExit(code) == [boot EXCEPT !.pc = "exited", !.status = code]

\* config = Config(args.config); an exception exits with status 1
LoadConfig ==
  /\ boot.pc = "main"
  /\ boot' = IF boot.file.state = "broken"
             THEN SysExit(1)
             ELSE [boot EXCEPT !.pc = "configured",
                               !.bot_token = boot.file.bot_token,
                               !.chat_id = boot.file.chat_id]
  /\ UNCHANGED BootRest

\* bot = TelegramBot(config); scheduler = MessageScheduler(bot, config)
NewBot ==
  /\ boot.pc = "configured"
  /\ LET bot_token == getenv(boot.env_token, boot.bot_token)
         chat_id   == getenv(boot.env_chat, boot.chat_id)
     IN  boot' = IF bot_token = "" \/ chat_id = ""
                 THEN SysExit(1)
                 ELSE [boot EXCEPT !.pc = "constructed",
                                   !.bot_token = bot_token,
                                   !.chat_id = chat_id,
                                   !.habit_tracker = (boot.database = "connected")]
  /\ UNCHANGED BootRest

\* if not bot.test_connection(): sys.exit(1)
TestConnection ==
  /\ boot.pc = "constructed"
  /\ boot' = IF boot.telegram THEN [boot EXCEPT !.pc = "connected"] ELSE SysExit(1)
  /\ UNCHANGED BootRest

\* scheduler.start()
StartScheduler ==
  /\ boot.pc = "connected"
  /\ boot' = [boot EXCEPT !.pc = "started", !.scheduler = TRUE]
  /\ UNCHANGED BootRest

\* bot.start_polling()
StartPolling ==
  /\ boot.pc = "started"
  /\ boot' = [boot EXCEPT !.pc = "polling"]
  /\ UNCHANGED BootRest

BootNext ==
  LoadConfig \/ NewBot \/ TestConnection \/ StartScheduler \/ StartPolling

BootSpec == BootInit /\ [][BootNext]_vars

\* ======================================================= retry behaviour
\* the configuration satisfies what Config.validate asks of it
ValidConfig == config.retry_attempts >= 1 /\ config.retry_delay >= 0

C2_Inv ==
  \A t \in Threads :
    fire[t].tried > fire[t].raised
    => /\ fire[t].phase = "done"
       /\ fire[t].tried = fire[t].raised + 1
       /\ fire[t].tried <= config.retry_attempts
       /\ fire[t].slept = fire[t].tried - 1
       /\ fire[t].notes = 0
       /\ thr[t].pc \in {"pollSleep", "dead"}

C3_SendFailurePropagates ==
  ValidConfig => \A t \in Threads : fire[t].sendFailed <= fire[t].raised

\* C4: the only failure message a firing puts on the channel is the one
\* notification after the last attempt failed: none is delivered while attempts
\* are left, and none in a firing that ends with a success.
C4_OnlyFinalFailureVisible ==
  \A t \in Threads :
    (ValidConfig /\ fire[t].failDelivered > 0)
    => /\ fire[t].failDelivered = 1
       /\ fire[t].phase = "done"
       /\ fire[t].notes = 1
       /\ fire[t].raised = fire[t].tried
       /\ fire[t].tried = config.retry_attempts

\* ============================================================= lifecycle
\* C5: after start() was called while running was true, exactly one background
\* thread is alive, running is true, and one startup notification was sent per
\* transition from stopped to running.
C5_StartWhileRunningIsNoop ==
  (ValidConfig /\ mainpc = "idle" /\ lastOp = "start_noop")
  => /\ running
     /\ Cardinality(AliveThreads) = 1
     /\ startups = launched

\* C6: when stop() has returned, the background thread it joined has exited
\* and no job is registered.
C6_StopTerminatesThread ==
  (ValidConfig /\ mainpc = "idle" /\ lastOp \in Stops
               /\ scheduler_thread # NoThread)
  => /\ thr[scheduler_thread].pc = "dead"
     /\ jobs = {}

\* C7: stop() always returns (also when called during a retry sleep, and when
\* no thread was ever started), and after it returned, for the first time or
\* again, running is false and no job is registered.
C7_StopReturned ==
  (mainpc = "idle" /\ lastOp \in Stops) => (~running /\ jobs = {})

C7_StopIdempotentNoDeadlock ==
  /\ []C7_StopReturned
  /\ [](mainpc = "join" => <>(mainpc = "idle"))

C7_Witness ==
  /\ mainpc = "idle"
  /\ lastOp = "stop_again"
  /\ scheduler_thread # NoThread
  /\ thr[scheduler_thread].pc = "retrySleep"

\* C8: a background thread ends only after running became false; an exception
\* of the polling step puts it into the 60-second sleep, after which it is
\* back at the loop test; failing jobs, exhausted retries and a failing
\* failure notification put it into the poll sleep.
C8_LoopEndsOnlyByStop ==
  [][\A t \in Threads :
       /\ (Alive(t) /\ thr'[t].pc = "dead") => ~running
       /\ (thr[t].pc = "loop" /\ thr'[t].pc = "errSleep")
            => thr'[t].wake = now + ErrorSleep
       /\ (thr[t].pc = "errSleep" /\ thr'[t].pc # "errSleep")
            => thr'[t].pc = "loop"
       /\ (thr[t].pc = "attempt" /\ thr'[t].pc # "attempt")
            => thr'[t].pc \in {"retrySleep", "pollSleep"}]_vars

C8_Witness ==
  \E t, u \in Threads :
    /\ running
    /\ fire[t].phase = "done" /\ fire[t].notes = 1 /\ fire[t].noteLost
    /\ thr[t].pc = "pollSleep"
    /\ thr[u].pc = "errSleep"

\* C9: while running is true, once a thread has polled at or after a fire time
\* that came while running was true, the job has been invoked exactly once for
\* that day, and for no day is it invoked twice.
C9_OncePerDay ==
  ValidConfig =>
    /\ \A d \in Days : fired[d] <= 1
    /\ \A t \in Threads :
         (running /\ thr[t].pc = "pollSleep")
         => \A d \in arrived :
              FireTimeOf(d) <= thr[t].wake - PollSleep => fired[d] = 1

\* ==================================================== next run time
\* the instant a result of get_next_run_time names
ResultTime(r) ==
  LET p == Split(r.clock)
  IN  [date |-> r.date, hour |-> ParseInt(p[1]), minute |-> ParseInt(p[2]),
       second |-> ParseInt(p[3]), micro |-> 0]

\* C10: for a valid HH:MM fire time and any now, the result is a time strictly
\* after now whose clock time is HH:MM:00: on now's date when now is before
\* today's fire time, and on the next date otherwise (also when now is exactly
\* today's fire time).
C10_NextRunStrictlyAfterNow ==
  nr.stage = "returned" =>
    LET r     == nr.result
        p     == Split(nr.schedule_time)
        today == [nr.current EXCEPT !.hour = ParseInt(p[1]),
                                    !.minute = ParseInt(p[2]),
                                    !.second = 0, !.micro = 0]
    IN  /\ ~r.error
        /\ r.clock = nr.schedule_time \o <<":", "0", "0">>
        /\ DTLess(nr.current, ResultTime(r))
        /\ r.date = (IF DTLess(nr.current, today) THEN nr.current.date
                                                  ELSE nr.current.date + 1)

C10_Witness ==
  /\ nr.stage = "returned"
  /\ nr.schedule_time = HHMM(9, 0)
  /\ nr.current = [date |-> 0, hour |-> 9, minute |-> 0, second |-> 0,
                   micro |-> 0]
  /\ nr.result.date = 1

InSection(c) == cl[c].pc \in {"exec", "commit"}

\* C12: at no time are the daily job's thread and a handler's thread both
\* inside the connect/query/commit section of a persistence operation.
C12_SerializedAccess ==
  ~(InSection("scheduler") /\ InSection("router"))

\* C13: when a thread has made two consecutive get_user_language calls for a
\* user who had no row at the first, neither call met a storage failure and
\* nobody called set_user_language for that user, both returned 'english' and
\* the users table holds exactly one row for the user (a row written but not
\* yet committed counts).
C13_DefaultReadIdempotent ==
  \A c \in Clients :
    LET first  == cl[c].prev
        second == cl[c].last
    IN  (/\ first.top = "get_user_language"
         /\ second.top = "get_user_language"
         /\ first.user_id = second.user_id
         /\ first.norow
         /\ first.clean /\ second.clean
         /\ hist.sets[second.user_id] = 0)
        => /\ first.ret = "english"
           /\ second.ret = "english"
           /\ Len(RowsOf(View.users, second.user_id)) = 1

\* C14: when a thread's set_user_language(u, L) is followed by its
\* get_user_language(u), neither met a storage failure and no other
\* set_user_language call for u was ever made, the get returns L.
C14_SetGetRoundTrip ==
  \A c \in Clients :
    LET set == cl[c].prev
        get == cl[c].last
    IN  (/\ set.top = "set_user_language"
         /\ get.top = "get_user_language"
         /\ set.user_id = get.user_id
         /\ set.clean /\ get.clean
         /\ hist.sets[get.user_id] = 1)
        => get.ret = set.language

\* C15: a get_total_count(u) that met no storage failure and ran while no
\* add_entry for u was in progress returns the number of add_entry calls for
\* u that returned their row, and such a get_days_since_last(u) returns 0
\* when the date of u's most recent entry is today.
C15_CountMatchesAdds ==
  \A c \in Clients :
    LET r == cl[c].last
    IN  /\ (r.top = "get_total_count" /\ r.clean /\ r.quiet)
           => r.ret = r.want
        /\ (r.top = "get_days_since_last" /\ r.clean /\ r.quiet /\ r.want = 1)
           => r.ret = Some(0)

\* C16: at every moment of every interleaving of get_user_language and
\* set_user_language calls, the users table (with and without the writes of
\* the open transaction) has at most one row per user_id; a language change
\* for a user who has a row leaves that one row, with the new language.
C16_OneRowPerUser ==
  \A u \in Users :
    /\ Len(RowsOf(committed.users, u)) <= 1
    /\ Len(RowsOf(View.users, u)) <= 1

\* a thread's set_user_language for a user whose default row was written by
\* that thread's get_user_language has returned: the committed row of the
\* user carries a language other than the default
C16_Witness ==
  \E c \in Clients :
    /\ cl[c].prev.top = "get_user_language"
    /\ cl[c].prev.norow
    /\ cl[c].prev.clean
    /\ cl[c].last.top = "set_user_language"
    /\ cl[c].last.user_id = cl[c].prev.user_id
    /\ cl[c].last.clean
    /\ cl[c].last.language # "english"
    /\ RowsOf(committed.users, cl[c].last.user_id)
         = <<[user_id |-> cl[c].last.user_id, language |-> cl[c].last.language]>>

\* C17: no step of any operation updates or deletes a stored habit entry: the
\* stored entries before a step are, unchanged and in place, the first of the
\* stored entries after it, so the entry count of no user ever decreases; a
\* second entry of a user on a day is stored as a second row.
C17_AppendOnly ==
  [][LET old == committed.habit_entries
         new == committed'.habit_entries
     IN  /\ Len(old) <= Len(new)
         /\ \A i \in 1..Len(old) : new[i] = old[i]
         /\ \A u \in Users : Len(RowsOf(old, u)) <= Len(RowsOf(new, u))]_vars

\* add_entry has returned the second row of a user and a day: both rows are
\* stored
C17_Witness ==
  \E c \in Clients :
    LET r  == cl[c].last
        rs == RowsOf(committed.habit_entries, r.user_id)
    IN  /\ r.top = "add_entry"
        /\ ~r.raised
        /\ r.ret # None
        /\ \E i, j \in 1..Len(rs) :
             /\ i < j
             /\ rs[j] = r.ret[1]
             /\ rs[i].entry_date = rs[j].entry_date

\* C18: a get_user_stats call one of whose three sub-queries failed has
\* returned none, never a struct.
C18_StatsAllOrNothing ==
  \A c \in Clients :
    (cl[c].last.top = "get_user_stats" /\ cl[c].last.fails # {})
      => cl[c].last.ret = None

\* C19: no persistence operation, running or returned, has made more than one
\* reconnect attempt in one check of its connection.
C19_OneReconnect ==
  \A c \in Clients :
    /\ cl[c].cur.reconnects <= 1
    /\ cl[c].last.reconnects <= 1

\* C20: when add_entry has returned normally, the row it returned is stored;
\* when it has raised, no row of that call is stored.
C20_AddEntryAtomic ==
  \A c \in Clients :
    LET r      == cl[c].last
        stored == \E i \in 1..Len(committed.habit_entries) :
                     committed.habit_entries[i].id = r.id
    IN  (cl[c].pc = "idle" /\ r.top = "add_entry")
          => /\ ~r.raised => (r.ret # None /\ stored)
             /\ r.raised => ~(r.id # 0 /\ stored)

\* C21: a set_user_language(u, L) that has returned did not raise and
\* returned L; when a storage failure occurred in it, the stored preference of
\* u is what it was before the call: with this the only set_user_language
\* call ever made for u and L not the default language, u's stored language
\* is not L.
C21_SetLanguageFailSoft ==
  \A c \in Clients :
    LET r == cl[c].last
    IN  (cl[c].pc = "idle" /\ r.top = "set_user_language")
          => /\ ~r.raised
             /\ r.ret = r.language
             /\ (~r.clean /\ hist.sets[r.user_id] = 1 /\ r.language # "english")
                  => SelectLanguage(committed, r.user_id) # Some(r.language)

\* C22: is_habit_message(text, language) of a str text has returned true
\* exactly when the lower-cased text contains a phrase of the language's list:
\* the list of the Arabic bundle for arabic (no phrase when there is no such
\* list), the English list for every other language, an unknown one included.
C22_ClassifierIff ==
  (lm.stage = "returned" /\ lm.text.type = "str") =>
    LET phrases == IF lm.language # "arabic" THEN EnglishPatterns
                   ELSE IF lm.languages.arabic.habit_patterns = None THEN <<>>
                   ELSE lm.languages.arabic.habit_patterns[1]
    IN  lm.result.value
          = (\E i \in 1..Len(phrases) :
               Contains(lower(lm.text.chars), phrases[i]))

\* C23: is_habit_message has not raised, and when a problem occurred while
\* classifying (the phrase list could not be obtained, the text is not a str)
\* its result is false.
C23_ClassifierFailClosed ==
  lm.stage = "returned" =>
    /\ ~lm.result.raised
    /\ lm.result.problem => ~lm.result.value

\* C30: get_text has not raised.  With the bundle of the language, or the
\* English bundle for a language that has none: when the category or the key
\* is absent it returned 'Text not found'; when the category is not a dict or
\* a placeholder of the template has no argument among those given it
\* returned the error string; otherwise it returned the template, each
\* placeholder replaced by its argument when arguments were given.
C30_GetTextTotal ==
  lm.stage = "returned" =>
    LET bundle == IF lm.language \in DOMAIN lm.languages
                  THEN lm.languages[lm.language]
                  ELSE lm.languages["english"]
        given  == DOMAIN lm.kwargs
        value  == lm.result.value
    IN  /\ ~lm.result.raised
        /\ IF lm.category \notin DOMAIN bundle
           THEN value = TextNotFound
           ELSE IF bundle[lm.category].type # "dict"
           THEN value = ErrorLoadingText
           ELSE IF lm.key \notin DOMAIN bundle[lm.category].items
           THEN value = TextNotFound
           ELSE LET template == bundle[lm.category].items[lm.key]
                    holes    == {template[i].v : i \in
                                   {j \in 1..Len(template) :
                                      template[j].kind = "hole"}}
                IN  IF given = {} THEN value = template
                    ELSE IF ~(holes \subseteq given)
                    THEN value = ErrorLoadingText
                    ELSE /\ Len(value) = Len(template)
                         /\ \A i \in 1..Len(template) :
                              value[i] = IF template[i].kind = "hole"
                                         THEN Lit(lm.kwargs[template[i].v])
                                         ELSE template[i]

\* get_text for an unknown language returned the English template of
\* status.last_entry with its date filled in
C30_Witness ==
  /\ lm.stage = "returned"
  /\ lm.language = "french"
  /\ "arabic" \in DOMAIN lm.languages
  /\ lm.category = "status"
  /\ lm.key = "last_entry"
  /\ lm.result.value = <<Lit("en "), Lit("last: "), Lit("2026-01-01")>>

\* C24: when every dispatched handler has finished, each user has as many
\* habit entries as text messages of that user were received for which the
\* classifier is true in the user's stored language at the time.
C24_OneEntryPerHabitMessage ==
  (\A w \in 1..NumThreads : rt.workers[w].kind = "none") =>
    \A u \in Users :
      Len(RowsOf(committed.habit_entries, u)) = rt.recognized[u]

\* C25: the handler that finished last returned normally, whatever storage
\* call or send failed inside it.
C25_NoHandlerEscape ==
  rt.last.kind # "none" => rt.last.outcome = "returned"

\* C26: when the language callback for lang_english or lang_arabic has been
\* handled and its confirmation was sent, the language stored for the user
\* is the selected one.
C26_SelectionStored ==
  (rt.last.kind = "callback" /\ rt.last.confirmed) =>
    SelectLanguage(committed, rt.last.user)
      = Some(IF rt.last.data = "lang_arabic" THEN "arabic" ELSE "english")

\* C28: at most one handler is in a worker thread at any time, and no handler
\* is still waiting or running when a later update's handler has finished.
C28_OneHandlerAtATime ==
  /\ Cardinality({w \in 1..NumThreads : rt.workers[w].kind # "none"}) <= 1
  /\ \A w \in 1..NumThreads :
       rt.workers[w].kind # "none" => rt.workers[w].seq > rt.last.seq

\* C27: when the bot token or the chat id is missing, or no storage
\* connection could be established, main() does not reach the state where
\* the scheduler is started and the inbound loop polls, and an exit it makes
\* has a status other than zero.
C27_StartupFailFast ==
  (\/ getenv(boot.env_token, boot.file.bot_token) = ""
   \/ getenv(boot.env_chat, boot.file.chat_id) = ""
   \/ boot.database # "connected")
    => /\ boot.pc # "polling"
       /\ boot.pc = "exited" => boot.status # 0

C31_DailyMessageOrDefault ==
  lm.stage = "returned" =>
    LET known == lm.language \in DOMAIN lm.languages
        list  == IF known /\ "daily_messages" \in DOMAIN lm.languages[lm.language]
                 THEN lm.languages[lm.language].daily_messages
                 ELSE <<>>
    IN  /\ ~lm.result.raised
        /\ (known /\ list # <<>>) =>
             \E i \in 1..Len(list) : lm.result.value = list[i]
        /\ (~known \/ list = <<>>) => lm.result.value = DefaultDailyMessage


\* C32: every HabitEntry the system creates has a null notes field: no path of
\* the router or of the scheduler records an entry with notes that are not
\* null.
C32_NotesNull ==
  \A i \in 1..Len(committed.habit_entries) :
    committed.habit_entries[i].notes = PyNone


\* C33: after any sequence of start() and stop() calls on one scheduler, a
\* stop() followed at once by a start() while the old thread is still in its
\* 30-second sleep included, at most one background thread is alive and
\* polling, and while running is false no background thread begins another
\* polling iteration.
C33_OnePollingThread ==
  /\ [](Cardinality(AliveThreads) <= 1)
  /\ [][\A t \in Threads :
          (~running /\ thr[t].pc = "loop") => thr'[t].pc \in {"loop", "dead"}]_vars


\* C34: whenever the scheduler is Running, exactly one daily job is registered
\* in the job registry; after start(), stop(), start() the daily job is armed
\* again.
C34_RunningHasOneJob ==
  (running /\ mainpc = "idle") => Cardinality(jobs) = 1


\* C35: a failed reschedule changes nothing: when reschedule(new_time) returns
\* False because new_time is not a valid fire time, the configured fire time
\* and the registered daily job are what they were before the call.
C35_FailedRescheduleChangesNothing ==
  [][(mainpc = "idle" /\ mainpc' = "idle" /\ lastOp' = "reschedule_failed")
       => /\ config'.schedule_time = config.schedule_time
          /\ jobs' = jobs]_vars


\* C36: a default-creating read never overwrites an explicit choice: under
\* every interleaving of get_user_language(u) on one thread with
\* set_user_language(u, L) on the other, once the set has completed
\* successfully the stored language of u is L until the next set_user_language
\* for u (here: no storage failure has occurred and the set is the only
\* set_user_language call made for u).
C36_DefaultNeverOverwrites ==
  \A c \in Clients :
    LET set == cl[c].last
    IN  (/\ set.top = "set_user_language"
         /\ set.clean
         /\ hist.faults = 0
         /\ hist.sets[set.user_id] = 1)
        => SelectLanguage(committed, set.user_id) = Some(set.language)


\* C37: in the habit-recording handler the reply matches the stored outcome:
\* when the handler sent an error reply ('failed_to_record' or
\* 'error_recording') for a message, no HabitEntry was persisted for that
\* message, and when an entry was persisted the only reply sent is the
\* confirmation.
C37_ReplyMatchesStore ==
  rt.last.kind = "text" =>
    /\ rt.last.replies \cap {"failed_to_record", "error_recording"} # {}
         => ~rt.last.stored
    /\ rt.last.stored => rt.last.replies \subseteq {"entry_recorded"}


\* C38: every daily firing makes at least one attempt to send the daily
\* message: the scheduler is never running with retry_attempts < 1 or
\* retry_delay < 0, so no firing completes with zero attempts and no
\* notification.
C38_EveryFiringAttempts ==
  /\ running => ValidConfig
  /\ \A t \in Threads :
       fire[t].phase = "done" => (fire[t].tried >= 1 \/ fire[t].notes >= 1)


\* C39: the next fire time reported to the user is the same everywhere: for
\* every configured fire time and timezone and the same instant, the time in
\* the startup notification of start(), the time in the /next reply and the
\* next_run of get_status (with the daily job registered) are equal, all being
\* the next occurrence of the fire time in the configured timezone.
C39_SameNextRunEverywhere ==
  (/\ nr.stage = "reports"
   /\ nr.registered
   /\ nr.startup # NoText /\ nr.next # NoText /\ nr.status # NoText)
  => /\ nr.startup = nr.next
     /\ nr.next = nr.status
     /\ nr.status = NextRunText(nr.schedule_time, nr.timezone, nr.instant)


\* the ids of the habit entries of tbl
EntryIds(tbl) == {tbl.habit_entries[i].id : i \in 1..Len(tbl.habit_entries)}

\* C40: read-only operations leave the stores unchanged: no step of
\* get_last_entry, get_total_count, get_days_since_last or get_user_stats
\* changes the users or the habit_entries table, and no step of the thread
\* handling /status writes a HabitEntry or changes the stored language of a
\* user who has a row.
C40_ReadsChangeNothing ==
  [][/\ \A c \in Clients :
          (cl'[c] # cl[c] /\ cl[c].cur.top \in ReadOps) => committed' = committed
     /\ cl'["router"] # cl["router"] =>
          /\ EntryIds(View') \subseteq EntryIds(View)
          /\ \A u \in Users :
               SelectLanguage(committed, u) # None =>
                 SelectLanguage(committed', u) = SelectLanguage(committed, u)]_vars

====
